---- MODULE Spec2Model ----
(***************************************************************************)
(* Model of the attr.Type / attr.Value algebra of terraform-plugin-        *)
(* framework: the container types of package types (ListType, MapType,     *)
(* ObjectType), the String and Number values, and their decode             *)
(* (ValueFromTerraform), encode (ToTerraformValue) and Equal operations.   *)
(*                                                                         *)
(* Go values are records.  A Go interface{} is tagged with its dynamic     *)
(* type in the field "go"; a nil pointer, slice, map or interface is a     *)
(* record of its own, so that nil and empty stay different.                *)
(***************************************************************************)
EXTENDS Integers, Sequences, FiniteSets, TLC

VARIABLES call, ret, src

vars == <<call, ret, src>>

(***************************************************************************)
(* Bounds of the explored inputs.                                          *)
(***************************************************************************)
MaxLen == 2

Names == {"a", "b"}

Strs == {"x", "y", "z"}

SeqUpTo(S, n) == UNION {[1..k -> S] : k \in 0..n}

PartialMaps(S) == UNION {[D -> S] : D \in SUBSET Names}

(***************************************************************************)
(* math/big.Float.  A finite value is sign * (sum of 2^p for p in bits);   *)
(* the binary expansion is unique, so two Floats have the same numeric     *)
(* value iff they have the same bits and, unless zero, the same sign.      *)
(* prec is the mantissa width the Float was created with; it is part of    *)
(* the representation and not of the value.                                *)
(***************************************************************************)
NewFloatPrec == 53

Float(neg, bits, prec) == [neg |-> neg, bits |-> bits, prec |-> prec]

NilFloat == [nilptr |-> "big.Float"]

MaxOf(S) == CHOOSE m \in S : \A k \in S : k <= m

MinOf(S) == CHOOSE m \in S : \A k \in S : m <= k

\* (*big.Float).Cmp: -1, 0 or +1; signs first, then magnitudes from the
\* highest differing bit.
MagLess(x, y) ==
    LET d == (x \ y) \cup (y \ x)
    IN  d # {} /\ MaxOf(d) \in y

Cmp(x, y) ==
    LET sx == IF x.bits = {} THEN 0 ELSE IF x.neg THEN -1 ELSE 1
        sy == IF y.bits = {} THEN 0 ELSE IF y.neg THEN -1 ELSE 1
    IN  IF sx < sy THEN -1
        ELSE IF sx > sy THEN 1
        ELSE IF x.bits = y.bits THEN 0
        ELSE IF MagLess(x.bits, y.bits) THEN (IF sx > 0 THEN -1 ELSE 1)
        ELSE (IF sx > 0 THEN 1 ELSE -1)

\* Adding one unit in the last place at bit position cut: carry through the
\* run of set bits starting at cut.
AddUlp(bits, cut) ==
    LET free == MinOf({q \in cut..(MaxOf(bits) + 1) : q \notin bits})
    IN  (bits \ (cut..free)) \cup {free}

\* Rounding of a mantissa to prec bits, to nearest even (the mode of
\* big.NewFloat).
RoundBits(bits, prec) ==
    IF bits = {} \/ MaxOf(bits) - MinOf(bits) + 1 <= prec THEN bits
    ELSE LET cut  == MaxOf(bits) - prec + 1
             kept == {p \in bits : p >= cut}
             half == (cut - 1) \in bits
             more == \E p \in bits : p < cut - 1
             up   == half /\ (more \/ cut \in bits)
         IN  IF up THEN AddUlp(kept, cut) ELSE kept

\* z.Set(x) for a z of non-zero precision: z keeps its precision and x is
\* rounded to it.
FloatSet(zprec, x) == Float(x.neg, RoundBits(x.bits, zprec), zprec)

One53 == Float(FALSE, {0}, 53)

One512 == Float(FALSE, {0}, 512)

Big64 == Float(FALSE, {0, 53}, 64)

Nums == {One53, One512, Big64}

(***************************************************************************)
(* tftypes, the wire side.  A tftypes.Type is String, Number, List, Map    *)
(* or Object; TFNil is the unset element type of the pattern tftypes.Map{}.*)
(* A tftypes.Value pairs a type with a Go payload: the unknown sentinel,   *)
(* nil (null), or the known payload.                                       *)
(***************************************************************************)
TFString == [tf |-> "String"]

TFNumber == [tf |-> "Number"]

TFNil == [tf |-> "nil"]

TFList(e) == [tf |-> "List", elem |-> e]

TFMap(e) == [tf |-> "Map", elem |-> e]

TFObject(attrs) == [tf |-> "Object", attrs |-> attrs]

UnknownValue == [go |-> "unknown"]

GoNil == [go |-> "nil"]

GoString(s) == [go |-> "string", str |-> s]

GoFloat(n) == [go |-> "float", num |-> n]

GoSlice(items) == [go |-> "slice", items |-> items]

GoMap(entries) == [go |-> "map", entries |-> entries]

NewValue(typ, val) == [typ |-> typ, value |-> val]

IsKnown(in) == in.value # UnknownValue

IsNull(in) == in.value = GoNil

\* tftypes.Type.Is: the same kind and, where the pattern names element or
\* attribute types, matching ones.
RECURSIVE TFIs(_, _)
TFIs(t, pattern) ==
    CASE t.tf \in {"String", "Number"} -> t = pattern
      [] t.tf \in {"List", "Map"} ->
            /\ pattern.tf = t.tf
            /\ pattern.elem # TFNil => TFIs(t.elem, pattern.elem)
      [] t.tf = "Object" ->
            /\ pattern.tf = "Object"
            /\ DOMAIN t.attrs = DOMAIN pattern.attrs
            /\ \A k \in DOMAIN t.attrs : TFIs(t.attrs[k], pattern.attrs[k])
      [] OTHER -> FALSE

\* tftypes.ValidateValue: nil and the unknown sentinel fit every type; a
\* known payload must be the Go type of the wire type, and the children of
\* a container must carry the element or attribute type.
ValidateValue(typ, val) ==
    \/ val \in {GoNil, UnknownValue}
    \/ typ.tf = "String" /\ val.go = "string"
    \/ typ.tf = "Number" /\ val.go = "float"
    \/ /\ typ.tf = "List"
       /\ val.go = "slice"
       /\ \A i \in 1..Len(val.items) : TFIs(val.items[i].typ, typ.elem)
    \/ /\ typ.tf = "Map"
       /\ val.go = "map"
       /\ \A k \in DOMAIN val.entries : TFIs(val.entries[k].typ, typ.elem)
    \/ /\ typ.tf = "Object"
       /\ val.go = "map"
       /\ DOMAIN val.entries = DOMAIN typ.attrs
       /\ \A k \in DOMAIN val.entries : TFIs(val.entries[k].typ, typ.attrs[k])

(***************************************************************************)
(* Errors and results.  A Go (value, error) pair is [val, err]; NoErr is   *)
(* the nil error and NilValue the nil attr.Value.                          *)
(***************************************************************************)
NoErr == [err |-> "nil"]

NilValue == [kind |-> "nil"]

Result(val, err) == [val |-> val, err |-> err]

AsError(in, target) == [err |-> "As", got |-> in.typ, target |-> target]

\* Position of key k in the iteration order ord of a Go map range.
Pos(ord, k) == CHOOSE i \in 1..Len(ord) : ord[i] = k

FirstKey(ord, S) == CHOOSE k \in S : \A j \in S : Pos(ord, k) <= Pos(ord, j)

(***************************************************************************)
(* attr.Type: the primitives StringType and NumberType, the containers,    *)
(* and ProviderType, a provider-defined implementation of the interface    *)
(* whose wire shape is a string and whose decode rejects some strings.     *)
(* NilType is the nil interface, the ElemType of a container that was      *)
(* built without one.                                                      *)
(***************************************************************************)
StringType == [kind |-> "String"]

NumberType == [kind |-> "Number"]

ProviderType == [kind |-> "Provider"]

NilType == [kind |-> "nil"]

ListType(e) == [kind |-> "List", ElemType |-> e]

MapType(e) == [kind |-> "Map", ElemType |-> e]

ObjectType(attrs) == [kind |-> "Object", AttrTypes |-> attrs]

Rejected == {"y", "z"}

(***************************************************************************)
(* attr.Value.  Elems and Attrs keep Go's difference between a nil and an  *)
(* empty slice or map in the field nil.                                    *)
(***************************************************************************)
String(unknown, null, value) ==
    [kind |-> "String", Unknown |-> unknown, Null |-> null, Value |-> value]

Number(unknown, null, value) ==
    [kind |-> "Number", Unknown |-> unknown, Null |-> null, Value |-> value]

NilSlice == [nil |-> TRUE, items |-> << >>]

Slice(items) == [nil |-> FALSE, items |-> items]

NilMap == [nil |-> TRUE, entries |-> << >>]

GoMapOf(entries) == [nil |-> FALSE, entries |-> entries]

List(unknown, null, elems, elemType) ==
    [kind |-> "List", Unknown |-> unknown, Null |-> null,
     Elems |-> elems, ElemType |-> elemType]

Map(unknown, null, elems, elemType) ==
    [kind |-> "Map", Unknown |-> unknown, Null |-> null,
     Elems |-> elems, ElemType |-> elemType]

Object(unknown, null, attrs, attrTypes) ==
    [kind |-> "Object", Unknown |-> unknown, Null |-> null,
     Attrs |-> attrs, AttrTypes |-> attrTypes]

(***************************************************************************)
(* TerraformType: the wire shape of a type.  It is defined for the types   *)
(* whose element and attribute types are all set; on a container with a    *)
(* nil ElemType the Go method dereferences nil.                            *)
(***************************************************************************)
RECURSIVE HasElemTypes(_)
HasElemTypes(t) ==
    CASE t.kind \in {"String", "Number", "Provider"} -> TRUE
      [] t.kind \in {"List", "Map"} -> HasElemTypes(t.ElemType)
      [] t.kind = "Object" ->
            \A k \in DOMAIN t.AttrTypes : HasElemTypes(t.AttrTypes[k])
      [] OTHER -> FALSE

RECURSIVE TerraformType(_)
ListType_TerraformType(l) == TFList(TerraformType(l.ElemType))

MapType_TerraformType(m) == TFMap(TerraformType(m.ElemType))

ObjectType_TerraformType(o) ==
    TFObject([k \in DOMAIN o.AttrTypes |-> TerraformType(o.AttrTypes[k])])

primitive_TerraformType(p) ==
    IF p = NumberType THEN TFNumber ELSE TFString

TerraformType(t) ==
    CASE t.kind = "List" -> ListType_TerraformType(t)
      [] t.kind = "Map" -> MapType_TerraformType(t)
      [] t.kind = "Object" -> ObjectType_TerraformType(t)
      [] t.kind = "Provider" -> TFString
      [] OTHER -> primitive_TerraformType(t)

(***************************************************************************)
(* Decode: ValueFromTerraform.  ord is the order in which the Go runtime   *)
(* happens to range over a map during this call.                           *)
(***************************************************************************)
\* in.As(&s), s a string
AsString(in) ==
    IF in.value.go = "string" THEN Result(in.value.str, NoErr)
    ELSE Result("", AsError(in, "string"))

\* in.As(&n), n a *big.Float allocated by big.NewFloat(0): the payload is
\* stored with (*big.Float).Set into a Float of precision NewFloatPrec.
AsBigFloat(in) ==
    IF in.value.go = "float"
    THEN Result(FloatSet(NewFloatPrec, in.value.num), NoErr)
    ELSE Result(NilFloat, AsError(in, "*big.Float"))

stringValueFromTerraform(in) ==
    IF ~IsKnown(in) THEN Result(String(TRUE, FALSE, ""), NoErr)
    ELSE IF IsNull(in) THEN Result(String(FALSE, TRUE, ""), NoErr)
    ELSE LET s == AsString(in)
         IN  IF s.err # NoErr THEN Result(NilValue, s.err)
             ELSE Result(String(FALSE, FALSE, s.val), NoErr)

\* Faulty variant: the null test is missing, so in.As stores a nil pointer
\* and a known Number without payload is returned.
numberValueFromTerraform_NoNullTest(in) ==
    IF ~IsKnown(in) THEN Result(Number(TRUE, FALSE, NilFloat), NoErr)
    ELSE IF IsNull(in) THEN Result(Number(FALSE, FALSE, NilFloat), NoErr)
    ELSE LET n == AsBigFloat(in)
         IN  IF n.err # NoErr THEN Result(NilValue, n.err)
             ELSE Result(Number(FALSE, FALSE, n.val), NoErr)

numberValueFromTerraform(in) ==
    IF ~IsKnown(in) THEN Result(Number(TRUE, FALSE, NilFloat), NoErr)
    ELSE IF IsNull(in) THEN Result(Number(FALSE, TRUE, NilFloat), NoErr)
    ELSE LET n == AsBigFloat(in)
         IN  IF n.err # NoErr THEN Result(NilValue, n.err)
             ELSE Result(Number(FALSE, FALSE, n.val), NoErr)

primitive_ValueFromTerraform(p, in) ==
    IF p = NumberType THEN numberValueFromTerraform(in)
    ELSE stringValueFromTerraform(in)

\* A provider's string type that validates while decoding.
ProviderType_ValueFromTerraform(in) ==
    LET r == stringValueFromTerraform(in)
    IN  IF r.err = NoErr /\ ~r.val.Unknown /\ ~r.val.Null /\ r.val.Value \in Rejected
        THEN Result(NilValue, [err |-> "Rejected", got |-> r.val.Value])
        ELSE r

RECURSIVE ValueFromTerraform(_, _, _)
\* Faulty variant: only the container kind of the wire type is tested, not
\* its element type.
ListType_ValueFromTerraform_KindOnly(l, in, ord) ==
    IF ~TFIs(in.typ, TFList(TFNil))
    THEN Result(NilValue, [err |-> "ShapeMismatch", by |-> "List", got |-> in,
                           want |-> TerraformType(l.ElemType)])
    ELSE IF ~IsKnown(in)
    THEN Result(List(TRUE, FALSE, NilSlice, l.ElemType), NoErr)
    ELSE IF IsNull(in)
    THEN Result(List(FALSE, TRUE, NilSlice, l.ElemType), NoErr)
    ELSE LET val == in.value.items
             av  == [i \in 1..Len(val) |-> ValueFromTerraform(l.ElemType, val[i], ord)]
             bad == {i \in 1..Len(val) : av[i].err # NoErr}
         IN  IF bad # {} THEN Result(NilValue, av[MinOf(bad)].err)
             ELSE Result(List(FALSE, FALSE,
                              Slice([i \in 1..Len(val) |-> av[i].val]),
                              l.ElemType), NoErr)

\* Faulty variant: the loop goes on after a failing element and the error
\* of the last failing element is returned.
ListType_ValueFromTerraform_LastError(l, in, ord) ==
    IF ~TFIs(in.typ, ListType_TerraformType(l))
    THEN Result(NilValue, [err |-> "ShapeMismatch", by |-> "List", got |-> in,
                           want |-> TerraformType(l.ElemType)])
    ELSE IF ~IsKnown(in)
    THEN Result(List(TRUE, FALSE, NilSlice, l.ElemType), NoErr)
    ELSE IF IsNull(in)
    THEN Result(List(FALSE, TRUE, NilSlice, l.ElemType), NoErr)
    ELSE LET val == in.value.items
             av  == [i \in 1..Len(val) |-> ValueFromTerraform(l.ElemType, val[i], ord)]
             bad == {i \in 1..Len(val) : av[i].err # NoErr}
         IN  IF bad # {} THEN Result(NilValue, av[MaxOf(bad)].err)
             ELSE Result(List(FALSE, FALSE,
                              Slice([i \in 1..Len(val) |-> av[i].val]),
                              l.ElemType), NoErr)

ListType_ValueFromTerraform(l, in, ord) ==
    IF ~TFIs(in.typ, ListType_TerraformType(l))
    THEN Result(NilValue, [err |-> "ShapeMismatch", by |-> "List", got |-> in,
                           want |-> TerraformType(l.ElemType)])
    ELSE IF ~IsKnown(in)
    THEN Result(List(TRUE, FALSE, NilSlice, l.ElemType), NoErr)
    ELSE IF IsNull(in)
    THEN Result(List(FALSE, TRUE, NilSlice, l.ElemType), NoErr)
    ELSE IF in.value.go # "slice"
    THEN Result(NilValue, AsError(in, "[]tftypes.Value"))
    ELSE LET val == in.value.items
             av  == [i \in 1..Len(val) |-> ValueFromTerraform(l.ElemType, val[i], ord)]
             bad == {i \in 1..Len(val) : av[i].err # NoErr}
         IN  IF bad # {} THEN Result(NilValue, av[MinOf(bad)].err)
             ELSE Result(List(FALSE, FALSE,
                              Slice([i \in 1..Len(val) |-> av[i].val]),
                              l.ElemType), NoErr)

\* Faulty variant: the unknown and null tests come before the tests of the
\* wire type.
MapType_ValueFromTerraform_FlagsFirst(m, in, ord) ==
    IF ~IsKnown(in)
    THEN Result(Map(TRUE, FALSE, NilMap, m.ElemType), NoErr)
    ELSE IF IsNull(in)
    THEN Result(Map(FALSE, TRUE, NilMap, m.ElemType), NoErr)
    ELSE IF ~TFIs(in.typ, TFMap(TFNil))
    THEN Result(NilValue, [err |-> "ShapeMismatch", by |-> "Map", got |-> in,
                           want |-> TFMap(TFNil)])
    ELSE IF ~TFIs(in.typ, TFMap(TerraformType(m.ElemType)))
    THEN Result(NilValue, [err |-> "ShapeMismatch", by |-> "Map", got |-> in,
                           want |-> TerraformType(m.ElemType)])
    ELSE LET val == in.value.entries
             av  == [k \in DOMAIN val |-> ValueFromTerraform(m.ElemType, val[k], ord)]
             bad == {k \in DOMAIN val : av[k].err # NoErr}
         IN  IF bad # {} THEN Result(NilValue, av[FirstKey(ord, bad)].err)
             ELSE Result(Map(FALSE, FALSE,
                             GoMapOf([k \in DOMAIN val |-> av[k].val]),
                             m.ElemType), NoErr)

MapType_ValueFromTerraform(m, in, ord) ==
    IF ~TFIs(in.typ, TFMap(TFNil))
    THEN Result(NilValue, [err |-> "ShapeMismatch", by |-> "Map", got |-> in,
                           want |-> TFMap(TFNil)])
    ELSE IF ~TFIs(in.typ, TFMap(TerraformType(m.ElemType)))
    THEN Result(NilValue, [err |-> "ShapeMismatch", by |-> "Map", got |-> in,
                           want |-> TerraformType(m.ElemType)])
    ELSE IF ~IsKnown(in)
    THEN Result(Map(TRUE, FALSE, NilMap, m.ElemType), NoErr)
    ELSE IF IsNull(in)
    THEN Result(Map(FALSE, TRUE, NilMap, m.ElemType), NoErr)
    ELSE IF in.value.go # "map"
    THEN Result(NilValue, AsError(in, "map[string]tftypes.Value"))
    ELSE LET val == in.value.entries
             av  == [k \in DOMAIN val |-> ValueFromTerraform(m.ElemType, val[k], ord)]
             bad == {k \in DOMAIN val : av[k].err # NoErr}
         IN  IF bad # {} THEN Result(NilValue, av[FirstKey(ord, bad)].err)
             ELSE Result(Map(FALSE, FALSE,
                             GoMapOf([k \in DOMAIN val |-> av[k].val]),
                             m.ElemType), NoErr)

\* Faulty variant: the known Object is returned without its AttrTypes.
ObjectType_ValueFromTerraform_KnownUntyped(o, in, ord) ==
    IF ~TFIs(in.typ, ObjectType_TerraformType(o))
    THEN Result(NilValue, [err |-> "ShapeMismatch", by |-> "Object",
                           got |-> in.typ, want |-> ObjectType_TerraformType(o)])
    ELSE IF ~IsKnown(in)
    THEN Result(Object(TRUE, FALSE, NilMap, o.AttrTypes), NoErr)
    ELSE IF IsNull(in)
    THEN Result(Object(FALSE, TRUE, NilMap, o.AttrTypes), NoErr)
    ELSE IF in.value.go # "map"
    THEN Result(NilValue, AsError(in, "map[string]tftypes.Value"))
    ELSE LET val == in.value.entries
             a   == [k \in DOMAIN val |-> ValueFromTerraform(o.AttrTypes[k], val[k], ord)]
             bad == {k \in DOMAIN val : a[k].err # NoErr}
         IN  IF bad # {} THEN Result(NilValue, a[FirstKey(ord, bad)].err)
             ELSE Result(Object(FALSE, FALSE,
                                GoMapOf([k \in DOMAIN val |-> a[k].val]),
                                << >>), NoErr)

ObjectType_ValueFromTerraform(o, in, ord) ==
    IF ~TFIs(in.typ, ObjectType_TerraformType(o))
    THEN Result(NilValue, [err |-> "ShapeMismatch", by |-> "Object",
                           got |-> in.typ, want |-> ObjectType_TerraformType(o)])
    ELSE IF ~IsKnown(in)
    THEN Result(Object(TRUE, FALSE, NilMap, o.AttrTypes), NoErr)
    ELSE IF IsNull(in)
    THEN Result(Object(FALSE, TRUE, NilMap, o.AttrTypes), NoErr)
    ELSE IF in.value.go # "map"
    THEN Result(NilValue, AsError(in, "map[string]tftypes.Value"))
    ELSE LET val == in.value.entries
             a   == [k \in DOMAIN val |-> ValueFromTerraform(o.AttrTypes[k], val[k], ord)]
             bad == {k \in DOMAIN val : a[k].err # NoErr}
         IN  IF bad # {} THEN Result(NilValue, a[FirstKey(ord, bad)].err)
             ELSE Result(Object(FALSE, FALSE,
                                GoMapOf([k \in DOMAIN val |-> a[k].val]),
                                o.AttrTypes), NoErr)

\* The call through the attr.Type interface.
ValueFromTerraform(t, in, ord) ==
    CASE t.kind = "List" -> ListType_ValueFromTerraform(t, in, ord)
      [] t.kind = "Map" -> MapType_ValueFromTerraform(t, in, ord)
      [] t.kind = "Object" -> ObjectType_ValueFromTerraform(t, in, ord)
      [] t.kind = "Provider" -> ProviderType_ValueFromTerraform(in)
      [] OTHER -> primitive_ValueFromTerraform(t, in)

(***************************************************************************)
(* Encode: ToTerraformValue returns the Go payload that tftypes.NewValue   *)
(* accepts, and an error.                                                  *)
(***************************************************************************)
String_ToTerraformValue(s) ==
    IF s.Null THEN Result(GoNil, NoErr)
    ELSE IF s.Unknown THEN Result(UnknownValue, NoErr)
    ELSE Result(GoString(s.Value), NoErr)

Number_ToTerraformValue(n) ==
    IF n.Null THEN Result(GoNil, NoErr)
    ELSE IF n.Unknown THEN Result(UnknownValue, NoErr)
    ELSE Result(GoFloat(n.Value), NoErr)

ValidateError(typ, val, wrapped) ==
    [err |-> "Validate", want |-> typ, got |-> val, wrapped |-> wrapped]

Panic == [err |-> "panic"]

RECURSIVE ToTerraformValue(_, _)
\* Faulty variant: the encoded child is wrapped without being validated.
EncodeChild_NoValidate(typ, elem, ord, wrapped) ==
    LET r == ToTerraformValue(elem, ord)
    IN  IF r.err # NoErr THEN Result(GoNil, r.err)
        ELSE Result(NewValue(typ, r.val), NoErr)

\* One turn of the loop of a container's ToTerraformValue: encode the
\* child, validate it against the declared type, wrap it.
EncodeChild(typ, elem, ord, wrapped) ==
    LET r == ToTerraformValue(elem, ord)
    IN  IF r.err # NoErr THEN Result(GoNil, r.err)
        ELSE IF ~ValidateValue(typ, r.val)
        THEN Result(GoNil, ValidateError(typ, r.val, wrapped))
        ELSE Result(NewValue(typ, r.val), NoErr)

\* Faulty variant: the Null test is missing, so a null list is encoded as
\* a known list of its (no) elements.
List_ToTerraformValue_NoNullTest(l, ord) ==
    IF l.Unknown THEN Result(UnknownValue, NoErr)
    ELSE LET elems == l.Elems.items
             vals  == [i \in 1..Len(elems) |->
                          EncodeChild(TerraformType(l.ElemType), elems[i], ord, TRUE)]
             bad   == {i \in 1..Len(elems) : vals[i].err # NoErr}
         IN  IF bad # {} THEN Result(GoNil, vals[MinOf(bad)].err)
             ELSE Result(GoSlice([i \in 1..Len(elems) |-> vals[i].val]), NoErr)

List_ToTerraformValue(l, ord) ==
    IF l.Unknown THEN Result(UnknownValue, NoErr)
    ELSE IF l.Null THEN Result(GoNil, NoErr)
    ELSE LET elems == l.Elems.items
             vals  == [i \in 1..Len(elems) |->
                          EncodeChild(TerraformType(l.ElemType), elems[i], ord, TRUE)]
             bad   == {i \in 1..Len(elems) : vals[i].err # NoErr}
         IN  IF bad # {} THEN Result(GoNil, vals[MinOf(bad)].err)
             ELSE Result(GoSlice([i \in 1..Len(elems) |-> vals[i].val]), NoErr)

Map_ToTerraformValue(m, ord) ==
    IF m.Unknown THEN Result(UnknownValue, NoErr)
    ELSE IF m.Null THEN Result(GoNil, NoErr)
    ELSE LET elems == m.Elems.entries
             vals  == [k \in DOMAIN elems |->
                          EncodeChild(TerraformType(m.ElemType), elems[k], ord, FALSE)]
             bad   == {k \in DOMAIN elems : vals[k].err # NoErr}
         IN  IF bad # {} THEN Result(GoNil, vals[FirstKey(ord, bad)].err)
             ELSE Result(GoMap([k \in DOMAIN elems |-> vals[k].val]), NoErr)

Object_ToTerraformValue(o, ord) ==
    IF o.Unknown THEN Result(UnknownValue, NoErr)
    ELSE IF o.Null THEN Result(GoNil, NoErr)
    ELSE LET attrs == o.Attrs.entries
             vals  == [k \in DOMAIN attrs |->
                          IF k \notin DOMAIN o.AttrTypes THEN Result(GoNil, Panic)
                          ELSE EncodeChild(TerraformType(o.AttrTypes[k]), attrs[k], ord, FALSE)]
             bad   == {k \in DOMAIN attrs : vals[k].err # NoErr}
         IN  IF bad # {} THEN Result(GoNil, vals[FirstKey(ord, bad)].err)
             ELSE Result(GoMap([k \in DOMAIN attrs |-> vals[k].val]), NoErr)

\* The call through the attr.Value interface.
ToTerraformValue(v, ord) ==
    CASE v.kind = "List" -> List_ToTerraformValue(v, ord)
      [] v.kind = "Map" -> Map_ToTerraformValue(v, ord)
      [] v.kind = "Object" -> Object_ToTerraformValue(v, ord)
      [] v.kind = "Number" -> Number_ToTerraformValue(v)
      [] OTHER -> String_ToTerraformValue(v)

(***************************************************************************)
(* attr.Type.Equal                                                         *)
(***************************************************************************)
primitive_Equal(p, o) == o.kind \in {"String", "Number"} /\ p = o

ProviderType_Equal(p, o) == o.kind = "Provider"

RECURSIVE TypeEqual(_, _)
ListType_Equal(l, o) ==
    IF l.ElemType = NilType THEN FALSE
    ELSE IF o.kind # "List" THEN FALSE
    ELSE TypeEqual(l.ElemType, o.ElemType)

\* Faulty variant: the other type is only required to be a type with an
\* element type, not a MapType.
MapType_Equal_AnyElementContainer(m, o) ==
    IF m.ElemType = NilType THEN FALSE
    ELSE IF o.kind \notin {"List", "Map"} THEN FALSE
    ELSE TypeEqual(m.ElemType, o.ElemType)

MapType_Equal(m, o) ==
    IF m.ElemType = NilType THEN FALSE
    ELSE IF o.kind # "Map" THEN FALSE
    ELSE TypeEqual(m.ElemType, o.ElemType)

\* The comparison of two attribute-type maps, as ObjectType.Equal and
\* Object.Equal both write it out.
AttrTypesEqual(mine, theirs) ==
    IF Cardinality(DOMAIN theirs) # Cardinality(DOMAIN mine) THEN FALSE
    ELSE \A k \in DOMAIN mine :
            /\ k \in DOMAIN theirs
            /\ TypeEqual(mine[k], theirs[k])

\* Faulty variant: the two attribute counts are not compared, so an object
\* type equals every object type that extends it.
ObjectType_Equal_NoLenTest(o, candidate) ==
    IF candidate.kind # "Object" THEN FALSE
    ELSE \A k \in DOMAIN o.AttrTypes :
            /\ k \in DOMAIN candidate.AttrTypes
            /\ TypeEqual(o.AttrTypes[k], candidate.AttrTypes[k])

ObjectType_Equal(o, candidate) ==
    IF candidate.kind # "Object" THEN FALSE
    ELSE AttrTypesEqual(o.AttrTypes, candidate.AttrTypes)

\* The call through the attr.Type interface.
TypeEqual(t, o) ==
    CASE t.kind = "List" -> ListType_Equal(t, o)
      [] t.kind = "Map" -> MapType_Equal(t, o)
      [] t.kind = "Object" -> ObjectType_Equal(t, o)
      [] t.kind = "Provider" -> ProviderType_Equal(t, o)
      [] OTHER -> primitive_Equal(t, o)

(***************************************************************************)
(* attr.Value.Equal                                                        *)
(***************************************************************************)
String_Equal(s, other) ==
    IF other.kind # "String" THEN FALSE
    ELSE IF s.Unknown # other.Unknown THEN FALSE
    ELSE IF s.Null # other.Null THEN FALSE
    ELSE s.Value = other.Value

Number_Equal(n, other) ==
    IF other.kind # "Number" THEN FALSE
    ELSE IF n.Unknown # other.Unknown THEN FALSE
    ELSE IF n.Null # other.Null THEN FALSE
    ELSE IF n.Value = NilFloat /\ other.Value = NilFloat THEN TRUE
    ELSE IF n.Value = NilFloat \/ other.Value = NilFloat THEN FALSE
    ELSE Cmp(n.Value, other.Value) = 0

RECURSIVE Equal(_, _)
\* Faulty variant: the Null flags are not compared.
List_Equal_NoNullTest(l, o) ==
    IF o.kind # "List" THEN FALSE
    ELSE IF l.Unknown # o.Unknown THEN FALSE
    ELSE IF ~TypeEqual(l.ElemType, o.ElemType) THEN FALSE
    ELSE IF Len(l.Elems.items) # Len(o.Elems.items) THEN FALSE
    ELSE \A pos \in 1..Len(l.Elems.items) :
            Equal(l.Elems.items[pos], o.Elems.items[pos])

List_Equal(l, o) ==
    IF o.kind # "List" THEN FALSE
    ELSE IF l.Unknown # o.Unknown THEN FALSE
    ELSE IF l.Null # o.Null THEN FALSE
    ELSE IF ~TypeEqual(l.ElemType, o.ElemType) THEN FALSE
    ELSE IF Len(l.Elems.items) # Len(o.Elems.items) THEN FALSE
    ELSE \A pos \in 1..Len(l.Elems.items) :
            Equal(l.Elems.items[pos], o.Elems.items[pos])

Map_Equal(m, o) ==
    IF o.kind # "Map" THEN FALSE
    ELSE IF m.Unknown # o.Unknown THEN FALSE
    ELSE IF m.Null # o.Null THEN FALSE
    ELSE IF ~TypeEqual(m.ElemType, o.ElemType) THEN FALSE
    ELSE IF Cardinality(DOMAIN m.Elems.entries) # Cardinality(DOMAIN o.Elems.entries)
    THEN FALSE
    ELSE \A key \in DOMAIN m.Elems.entries :
            /\ key \in DOMAIN o.Elems.entries
            /\ Equal(m.Elems.entries[key], o.Elems.entries[key])

Object_Equal(o, c) ==
    IF c.kind # "Object" THEN FALSE
    ELSE IF o.Unknown # c.Unknown THEN FALSE
    ELSE IF o.Null # c.Null THEN FALSE
    ELSE IF ~AttrTypesEqual(o.AttrTypes, c.AttrTypes) THEN FALSE
    ELSE IF Cardinality(DOMAIN o.Attrs.entries) # Cardinality(DOMAIN c.Attrs.entries)
    THEN FALSE
    ELSE \A k \in DOMAIN o.Attrs.entries :
            /\ k \in DOMAIN c.Attrs.entries
            /\ Equal(o.Attrs.entries[k], c.Attrs.entries[k])

\* The call through the attr.Value interface.
Equal(v, o) ==
    CASE v.kind = "List" -> List_Equal(v, o)
      [] v.kind = "Map" -> Map_Equal(v, o)
      [] v.kind = "Object" -> Object_Equal(v, o)
      [] v.kind = "Number" -> Number_Equal(v, o)
      [] OTHER -> String_Equal(v, o)

(***************************************************************************)
(* The inputs the operations are applied to.                               *)
(***************************************************************************)
ObjA == ObjectType("a" :> StringType)

ObjAB == ObjectType("a" :> StringType @@ "b" :> NumberType)

ObjNested == ObjectType("a" :> ListType(StringType) @@ "b" :> NumberType)

\* Types built from the primitives alone: the values of these are encoded,
\* compared and round-tripped.
PlainTypes ==
    {StringType, NumberType,
     ListType(StringType), ListType(NumberType), MapType(StringType),
     ObjectType(<< >>), ObjA, ObjAB,
     ListType(ObjA), MapType(ObjA), ObjNested}

\* Types with a provider-defined leaf, whose decode can fail on a wire
\* value of the right shape.
ProviderTypes ==
    {ProviderType, ListType(ProviderType), MapType(ProviderType),
     ObjectType("a" :> ProviderType @@ "b" :> ProviderType),
     ListType(ObjectType("a" :> ProviderType))}

DecodeTypes == PlainTypes \cup ProviderTypes

\* Containers built without an element type, and more shapes to compare.
EqualTypes ==
    DecodeTypes \cup
    {ListType(NilType), MapType(NilType), ListType(ListType(NilType)),
     ObjectType("a" :> MapType(NilType)),
     MapType(NumberType), MapType(ListType(StringType)),
     ObjectType("b" :> StringType), ObjectType("a" :> NumberType),
     ObjectType("a" :> NumberType @@ "b" :> StringType),
     ListType(MapType(ObjA))}

Orders == {<<"a", "b">>, <<"b", "a">>}

\* Every tftypes.Value of a wire type: unknown, null, and the known values
\* with lists of at most MaxLen elements and keys among Names.
RECURSIVE WiresOf(_)
WiresOf(typ) ==
    {NewValue(typ, UnknownValue), NewValue(typ, GoNil)} \cup
    CASE typ.tf = "String" -> {NewValue(typ, GoString(s)) : s \in Strs}
      [] typ.tf = "Number" -> {NewValue(typ, GoFloat(n)) : n \in Nums}
      [] typ.tf = "List" ->
            {NewValue(typ, GoSlice(items)) : items \in SeqUpTo(WiresOf(typ.elem), MaxLen)}
      [] typ.tf = "Map" ->
            {NewValue(typ, GoMap(entries)) : entries \in PartialMaps(WiresOf(typ.elem))}
      [] typ.tf = "Object" ->
            {NewValue(typ, GoMap(entries)) :
                entries \in {f \in [DOMAIN typ.attrs ->
                                      UNION {WiresOf(typ.attrs[k]) : k \in DOMAIN typ.attrs}] :
                                \A k \in DOMAIN typ.attrs : f[k] \in WiresOf(typ.attrs[k])}}

Wires == UNION {WiresOf(TerraformType(t)) : t \in DecodeTypes}

\* Every attr.Value of a type in which exactly one of Unknown, Null and
\* known holds at every level, a known value carries its payload, and the
\* children of a container are values of its declared element type.
RECURSIVE ValuesOf(_)
ValuesOf(t) ==
    CASE t.kind = "String" ->
            {String(TRUE, FALSE, ""), String(FALSE, TRUE, "")} \cup
            {String(FALSE, FALSE, s) : s \in Strs}
      [] t.kind = "Number" ->
            {Number(TRUE, FALSE, NilFloat), Number(FALSE, TRUE, NilFloat)} \cup
            {Number(FALSE, FALSE, n) : n \in Nums}
      [] t.kind = "List" ->
            {List(TRUE, FALSE, NilSlice, t.ElemType),
             List(FALSE, TRUE, NilSlice, t.ElemType)} \cup
            {List(FALSE, FALSE, Slice(items), t.ElemType) :
                items \in SeqUpTo(ValuesOf(t.ElemType), MaxLen)}
      [] t.kind = "Map" ->
            {Map(TRUE, FALSE, NilMap, t.ElemType),
             Map(FALSE, TRUE, NilMap, t.ElemType)} \cup
            {Map(FALSE, FALSE, GoMapOf(entries), t.ElemType) :
                entries \in PartialMaps(ValuesOf(t.ElemType))}
      [] t.kind = "Object" ->
            {Object(TRUE, FALSE, NilMap, t.AttrTypes),
             Object(FALSE, TRUE, NilMap, t.AttrTypes)} \cup
            {Object(FALSE, FALSE, GoMapOf(attrs), t.AttrTypes) :
                attrs \in {f \in [DOMAIN t.AttrTypes ->
                                    UNION {ValuesOf(t.AttrTypes[k]) : k \in DOMAIN t.AttrTypes}] :
                              \A k \in DOMAIN t.AttrTypes : f[k] \in ValuesOf(t.AttrTypes[k])}}

Values == UNION {ValuesOf(t) : t \in PlainTypes}

ComparedValues ==
    UNION {ValuesOf(t) : t \in {StringType, NumberType, ListType(StringType),
                                ObjA, ObjAB, MapType(ObjA)}}

\* The type a value is decoded with again: the caller rebuilds it from the
\* value's own element or attribute types.
TypeOf(v) ==
    CASE v.kind = "List" -> ListType(v.ElemType)
      [] v.kind = "Map" -> MapType(v.ElemType)
      [] v.kind = "Object" -> ObjectType(v.AttrTypes)
      [] v.kind = "Number" -> NumberType
      [] OTHER -> StringType

(***************************************************************************)
(* The state machine: a caller makes one call, the call returns, and an    *)
(* encoded value may be handed back to its type to be decoded again.       *)
(***************************************************************************)
NoRet == [pending |-> TRUE]

NoSrc == [none |-> TRUE]

DecodeCall(t, in, ord) == [op |-> "ValueFromTerraform", t |-> t, in |-> in, ord |-> ord]

EncodeCall(v, ord) == [op |-> "ToTerraformValue", v |-> v, ord |-> ord]

Init ==
    /\ \/ \E t \in DecodeTypes, in \in Wires, ord \in Orders : call = DecodeCall(t, in, ord)
       \/ \E v \in Values, ord \in Orders : call = EncodeCall(v, ord)
       \/ \E t \in EqualTypes, o \in EqualTypes : call = [op |-> "Type.Equal", t |-> t, o |-> o]
       \/ \E v \in ComparedValues, o \in ComparedValues :
             call = [op |-> "Value.Equal", v |-> v, o |-> o]
    /\ ret = NoRet
    /\ src = NoSrc

\* t.ValueFromTerraform(ctx, in)
Decode ==
    /\ call.op = "ValueFromTerraform"
    /\ ret = NoRet
    /\ ret' = ValueFromTerraform(call.t, call.in, call.ord)
    /\ UNCHANGED <<call, src>>

\* v.ToTerraformValue(ctx)
Encode ==
    /\ call.op = "ToTerraformValue"
    /\ ret = NoRet
    /\ ret' = ToTerraformValue(call.v, call.ord)
    /\ UNCHANGED <<call, src>>

\* The encoded payload is validated, wrapped with tftypes.NewValue in the
\* wire type of the value's own type, and handed to that type's decode.
Redecode ==
    /\ call.op = "ToTerraformValue"
    /\ ret # NoRet
    /\ ret.err = NoErr
    /\ ValidateValue(TerraformType(TypeOf(call.v)), ret.val)
    /\ call' = DecodeCall(TypeOf(call.v),
                           NewValue(TerraformType(TypeOf(call.v)), ret.val),
                           call.ord)
    /\ ret' = NoRet
    /\ src' = call.v

\* t.Equal(o), and o.Equal(t) for the same pair
CompareTypes ==
    /\ call.op = "Type.Equal"
    /\ ret = NoRet
    /\ ret' = [eq |-> TypeEqual(call.t, call.o), rev |-> TypeEqual(call.o, call.t)]
    /\ UNCHANGED <<call, src>>

\* v.Equal(o)
CompareValues ==
    /\ call.op = "Value.Equal"
    /\ ret = NoRet
    /\ ret' = [eq |-> Equal(call.v, call.o)]
    /\ UNCHANGED <<call, src>>

Next ==
    \/ Decode
    \/ Encode
    \/ Redecode
    \/ CompareTypes
    \/ CompareValues

Spec == Init /\ [][Next]_vars

(***************************************************************************)
(* Vocabulary of the properties.                                           *)
(***************************************************************************)
Returned(op) == call.op = op /\ ret # NoRet

IsKnownValue(v) == ~v.Unknown /\ ~v.Null

\* The children of a container value.
Payload(v) ==
    CASE v.kind = "List" -> v.Elems.items
      [] v.kind = "Map" -> v.Elems.entries
      [] v.kind = "Object" -> v.Attrs.entries

\* Two Floats denote the same number.
SameNumber(x, y) == x.bits = y.bits /\ (x.bits = {} \/ x.neg = y.neg)

\* A value with every Float reduced to the number it denotes.
RECURSIVE Norm(_)
Norm(v) ==
    CASE v.kind = "Number" ->
            IF v.Value = NilFloat THEN v
            ELSE [v EXCEPT !.Value = Float(v.Value.neg /\ v.Value.bits # {}, v.Value.bits, 0)]
      [] v.kind = "List" ->
            [v EXCEPT !.Elems.items = [i \in 1..Len(v.Elems.items) |-> Norm(v.Elems.items[i])]]
      [] v.kind = "Map" ->
            [v EXCEPT !.Elems.entries =
                [k \in DOMAIN v.Elems.entries |-> Norm(v.Elems.entries[k])]]
      [] v.kind = "Object" ->
            [v EXCEPT !.Attrs.entries =
                [k \in DOMAIN v.Attrs.entries |-> Norm(v.Attrs.entries[k])]]
      [] OTHER -> v

\* Exactly one of Unknown, Null and known holds of v and of everything in
\* it, and what is known carries its payload.
RECURSIVE TriState(_)
TriState(v) ==
    /\ ~(v.Unknown /\ v.Null)
    /\ IsKnownValue(v) =>
          CASE v.kind = "String" -> v.Value \in Strs
            [] v.kind = "Number" -> v.Value # NilFloat
            [] v.kind = "List" ->
                  /\ ~v.Elems.nil
                  /\ \A i \in 1..Len(v.Elems.items) : TriState(v.Elems.items[i])
            [] v.kind = "Map" ->
                  /\ ~v.Elems.nil
                  /\ \A k \in DOMAIN v.Elems.entries : TriState(v.Elems.entries[k])
            [] v.kind = "Object" ->
                  /\ ~v.Attrs.nil
                  /\ \A k \in DOMAIN v.Attrs.entries : TriState(v.Attrs.entries[k])

(***************************************************************************)
(* C1.  Round trip: for every known value v whose elements conform to its  *)
(* declared type, v.ToTerraformValue succeeds, and decoding the wire value *)
(* built from it with v's type succeeds and yields a value Equal to v.     *)
(* This is the claim as stated; it is refuted, see C6.                     *)
(***************************************************************************)
C1_RoundTrip ==
    /\ Returned("ToTerraformValue") /\ IsKnownValue(call.v) =>
          /\ ret.err = NoErr
          /\ ValidateValue(TerraformType(TypeOf(call.v)), ret.val)
    /\ Returned("ValueFromTerraform") /\ src # NoSrc /\ IsKnownValue(src) =>
          /\ ret.err = NoErr
          /\ Equal(ret.val, src)
          /\ Equal(src, ret.val)

\* Every Float in v fits the precision that a decode allocates.
RECURSIVE FitsNewFloat(_)
FitsNewFloat(v) ==
    CASE v.kind = "Number" ->
            v.Value = NilFloat \/ RoundBits(v.Value.bits, NewFloatPrec) = v.Value.bits
      [] v.kind \in {"List", "Map", "Object"} ->
            \A k \in DOMAIN Payload(v) : FitsNewFloat(Payload(v)[k])
      [] OTHER -> TRUE

\* What is left of C1 on the code: the round trip holds for the known
\* values whose numbers fit NewFloatPrec bits.
RoundTripWithinPrecision ==
    /\ Returned("ToTerraformValue") /\ IsKnownValue(call.v) =>
          /\ ret.err = NoErr
          /\ ValidateValue(TerraformType(TypeOf(call.v)), ret.val)
    /\ Returned("ValueFromTerraform") /\ src # NoSrc /\ IsKnownValue(src) /\ FitsNewFloat(src) =>
          /\ ret.err = NoErr
          /\ Equal(ret.val, src)
          /\ Equal(src, ret.val)

(***************************************************************************)
(* C2.  Tri-state exclusivity: every value ValueFromTerraform returns      *)
(* without error has, at every nesting level, never both Unknown and Null  *)
(* set, and carries its payload when neither is set.                       *)
(***************************************************************************)
C2_TriStateExclusive ==
    Returned("ValueFromTerraform") /\ ret.err = NoErr => TriState(ret.val)

C2_Witness ==
    /\ Returned("ValueFromTerraform")
    /\ ret.err = NoErr
    /\ ret.val.kind = "List"
    /\ IsKnownValue(ret.val)
    /\ Len(ret.val.Elems.items) = 2
    /\ ret.val.Elems.items[1].Unknown
    /\ ret.val.Elems.items[2].Null

C6_NumberByValue ==
    /\ /\ Returned("Value.Equal")
       /\ call.v.kind = "Number" /\ IsKnownValue(call.v)
       /\ call.o.kind = "Number" /\ IsKnownValue(call.o)
       => ret.eq = SameNumber(call.v.Value, call.o.Value)
    /\ /\ Returned("ValueFromTerraform")
       /\ src # NoSrc
       /\ src.kind = "Number" /\ IsKnownValue(src)
       => /\ ret.err = NoErr
          /\ IsKnownValue(ret.val)
          /\ SameNumber(ret.val.Value, src.Value)

(***************************************************************************)
(* Decoding, seen from the caller.                                         *)
(***************************************************************************)
IsContainerType(t) == t.kind \in {"List", "Map", "Object"}

Absent(in) == ~IsKnown(in) \/ IsNull(in)

\* The value without payload that a type returns for an unknown or null
\* wire value.
AbsentValue(t, in) ==
    LET u == ~IsKnown(in)
        n == IsKnown(in) /\ IsNull(in)
    IN  CASE t.kind = "String" -> String(u, n, "")
          [] t.kind = "Number" -> Number(u, n, NilFloat)
          [] t.kind = "List" -> List(u, n, NilSlice, t.ElemType)
          [] t.kind = "Map" -> Map(u, n, NilMap, t.ElemType)
          [] t.kind = "Object" -> Object(u, n, NilMap, t.AttrTypes)

(***************************************************************************)
(* C7.  As stated: for String, Number, List, Map and Object alike, an      *)
(* unknown or null wire value decodes to the Unknown or Null value of the  *)
(* type with no error, whatever the wire value's type is.                  *)
(***************************************************************************)
C7_Original ==
    /\ Returned("ValueFromTerraform")
    /\ call.t.kind \in {"String", "Number", "List", "Map", "Object"}
    /\ Absent(call.in)
    => /\ ret.err = NoErr
       /\ ret.val = AbsentValue(call.t, call.in)

(***************************************************************************)
(* C7, amended.  An unknown or null wire value decodes to the Unknown or   *)
(* Null value of the type, with no error and without decoding a child:     *)
(* for String and Number whatever the wire value's type is; for List, Map  *)
(* and Object only when the wire value's type is the type's TerraformType. *)
(* The three container types check the wire type first, so an unknown or   *)
(* null wire value of another wire type gets a shape-mismatch error and no *)
(* Value.                                                                  *)
(***************************************************************************)
C7_ShortCircuitAfterShapeCheck ==
    /\ Returned("ValueFromTerraform")
    /\ call.t.kind \in {"String", "Number", "List", "Map", "Object"}
    /\ Absent(call.in)
    => IF IsContainerType(call.t) /\ call.in.typ # TerraformType(call.t)
       THEN ret.val = NilValue /\ ret.err.err = "ShapeMismatch"
       ELSE ret.err = NoErr /\ ret.val = AbsentValue(call.t, call.in)

C7_Witness ==
    /\ Returned("ValueFromTerraform")
    /\ call.t = MapType(StringType)
    /\ call.in = NewValue(TFMap(TerraformType(ObjA)), UnknownValue)
    /\ ret.val = NilValue
    /\ ret.err.err = "ShapeMismatch"

(***************************************************************************)
(* C8.  Shape mismatch: a ListType, MapType or ObjectType given a known,   *)
(* non-null wire value whose type is not the type's TerraformType (another *)
(* container kind, or the right kind with another element or attribute     *)
(* type) returns no Value and a shape-mismatch error that names what was   *)
(* received and what the type accepts.                                     *)
(***************************************************************************)
Received(e) == IF e.by = "Object" THEN e.got ELSE e.got.typ

Accepted(t, in) ==
    CASE t.kind = "Object" -> TerraformType(t)
      [] t.kind = "Map" /\ in.typ.tf # "Map" -> TFMap(TFNil)
      [] OTHER -> TerraformType(t.ElemType)

C8_ShapeMismatch ==
    /\ Returned("ValueFromTerraform")
    /\ IsContainerType(call.t)
    /\ ~Absent(call.in)
    /\ call.in.typ # TerraformType(call.t)
    => /\ ret.val = NilValue
       /\ ret.err.err = "ShapeMismatch"
       /\ Received(ret.err) = call.in.typ
       /\ ret.err.want = Accepted(call.t, call.in)

C8_Witness ==
    /\ Returned("ValueFromTerraform")
    /\ call.t = MapType(StringType)
    /\ call.in.typ = TFMap(TerraformType(ObjA))
    /\ ~Absent(call.in)
    /\ DOMAIN call.in.value.entries = Names
    /\ ret.val = NilValue
    /\ ret.err.want = TFString

(***************************************************************************)
(* C9.  Fail-fast container decode: a known List, Map or Object of the     *)
(* right wire type decodes each child with the declared element or         *)
(* attribute type.  If a child's decode fails, the container returns no    *)
(* Value and exactly that child's error, for a List the error of the first *)
(* failing element; no partial container and no combined error.  If none   *)
(* fails, the container is known and holds each child's decoded value.     *)
(***************************************************************************)
Children(in) == IF in.value.go = "slice" THEN in.value.items ELSE in.value.entries

ChildType(t, k) == IF t.kind = "Object" THEN t.AttrTypes[k] ELSE t.ElemType

C9_FailFast ==
    /\ Returned("ValueFromTerraform")
    /\ IsContainerType(call.t)
    /\ ~Absent(call.in)
    /\ call.in.typ = TerraformType(call.t)
    => LET kids    == Children(call.in)
           child   == [k \in DOMAIN kids |->
                          ValueFromTerraform(ChildType(call.t, k), kids[k], call.ord)]
           failing == {k \in DOMAIN kids : child[k].err # NoErr}
       IN  IF failing # {}
           THEN /\ ret.val = NilValue
                /\ ret.err \in {child[k].err : k \in failing}
                /\ call.t.kind = "List" => ret.err = child[MinOf(failing)].err
           ELSE /\ ret.err = NoErr
                /\ IsKnownValue(ret.val)
                /\ Payload(ret.val) = [k \in DOMAIN kids |-> child[k].val]

C9_Witness ==
    /\ Returned("ValueFromTerraform")
    /\ call.t = ListType(ProviderType)
    /\ ~Absent(call.in)
    /\ call.in.typ = TFList(TFString)
    /\ Len(call.in.value.items) = 2
    /\ call.in.value.items[1].value = GoString("z")
    /\ call.in.value.items[2].value = GoString("y")
    /\ ret.val = NilValue
    /\ ret.err = [err |-> "Rejected", got |-> "z"]

(***************************************************************************)
(* C10.  Encode sentinels: ToTerraformValue returns the unknown sentinel   *)
(* for an Unknown value, nil for a Null value, and otherwise the payload;  *)
(* for a known container, one wire value per element, in order for a List  *)
(* and per key for a Map or Object, each the element's own encoding in the *)
(* declared element or attribute wire type.                                *)
(***************************************************************************)
EncodedAs(t, elem, ord) == NewValue(TerraformType(t), ToTerraformValue(elem, ord).val)

C10_EncodeSentinels ==
    Returned("ToTerraformValue") =>
        LET v == call.v
        IN  IF v.Unknown THEN ret = Result(UnknownValue, NoErr)
            ELSE IF v.Null THEN ret = Result(GoNil, NoErr)
            ELSE /\ ret.err = NoErr
                 /\ CASE v.kind = "String" -> ret.val = GoString(v.Value)
                      [] v.kind = "Number" -> ret.val = GoFloat(v.Value)
                      [] v.kind = "List" ->
                            /\ ret.val.go = "slice"
                            /\ Len(ret.val.items) = Len(v.Elems.items)
                            /\ \A i \in 1..Len(v.Elems.items) :
                                  ret.val.items[i] = EncodedAs(v.ElemType, v.Elems.items[i], call.ord)
                      [] v.kind = "Map" ->
                            /\ ret.val.go = "map"
                            /\ DOMAIN ret.val.entries = DOMAIN v.Elems.entries
                            /\ \A k \in DOMAIN v.Elems.entries :
                                  ret.val.entries[k] = EncodedAs(v.ElemType, v.Elems.entries[k], call.ord)
                      [] v.kind = "Object" ->
                            /\ ret.val.go = "map"
                            /\ DOMAIN ret.val.entries = DOMAIN v.Attrs.entries
                            /\ \A k \in DOMAIN v.Attrs.entries :
                                  ret.val.entries[k] = EncodedAs(v.AttrTypes[k], v.Attrs.entries[k], call.ord)

C10_Witness ==
    /\ Returned("ToTerraformValue")
    /\ call.v.kind = "List"
    /\ IsKnownValue(call.v)
    /\ Len(call.v.Elems.items) = 2
    /\ call.v.Elems.items[1].Unknown
    /\ call.v.Elems.items[2].Null
    /\ ret.val.go = "slice"
    /\ ret.val.items[1].value = UnknownValue
    /\ ret.val.items[2].value = GoNil

(***************************************************************************)
(* Encoding values whose payload has drifted from the declared type: the   *)
(* fields of a List, Map or Object are public, so a container can hold a   *)
(* child that is not a value of its element or attribute type.             *)
(***************************************************************************)
DriftElems ==
    ValuesOf(StringType) \cup ValuesOf(NumberType) \cup
    {List(FALSE, FALSE, Slice(<<String(FALSE, FALSE, "x")>>), StringType),
     List(FALSE, FALSE, Slice(<< >>), NumberType),
     Object(FALSE, FALSE, GoMapOf("a" :> String(FALSE, FALSE, "x")), ObjA.AttrTypes),
     Map(FALSE, FALSE, GoMapOf("a" :> String(FALSE, FALSE, "x")), StringType)}

DriftElemTypes == {StringType, NumberType, ListType(StringType), ObjA}

DriftObjects ==
    {Object(FALSE, FALSE, GoMapOf(attrs), t.AttrTypes) :
        t \in {ObjAB, ObjNested}, attrs \in PartialMaps(DriftElems)}

DriftValues ==
    {List(FALSE, FALSE, Slice(items), t) :
        t \in DriftElemTypes, items \in SeqUpTo(DriftElems, MaxLen)} \cup
    {Map(FALSE, FALSE, GoMapOf(entries), t) :
        t \in DriftElemTypes, entries \in PartialMaps(DriftElems)} \cup
    DriftObjects \cup
    {List(FALSE, FALSE, Slice(<<d>>), TypeOf(d)) : d \in DriftObjects}

DriftInit ==
    /\ \E v \in DriftValues, ord \in Orders : call = EncodeCall(v, ord)
    /\ ret = NoRet
    /\ src = NoSrc

DriftNext == Encode

DriftSpec == DriftInit /\ [][DriftNext]_vars

\* A wire value whose payload, at every level, is of its wire type.
RECURSIVE WireConforms(_)
WireConforms(w) ==
    \/ w.value \in {GoNil, UnknownValue}
    \/ w.typ.tf = "String" /\ w.value.go = "string"
    \/ w.typ.tf = "Number" /\ w.value.go = "float"
    \/ /\ w.typ.tf = "List"
       /\ w.value.go = "slice"
       /\ \A i \in 1..Len(w.value.items) :
             w.value.items[i].typ = w.typ.elem /\ WireConforms(w.value.items[i])
    \/ /\ w.typ.tf = "Map"
       /\ w.value.go = "map"
       /\ \A k \in DOMAIN w.value.entries :
             w.value.entries[k].typ = w.typ.elem /\ WireConforms(w.value.entries[k])
    \/ /\ w.typ.tf = "Object"
       /\ w.value.go = "map"
       /\ DOMAIN w.value.entries = DOMAIN w.typ.attrs
       /\ \A k \in DOMAIN w.value.entries :
             w.value.entries[k].typ = w.typ.attrs[k] /\ WireConforms(w.value.entries[k])

\* A known child c in a slot declared t, one of the two a primitive and
\* the other of another variant: a Number in a list of String, a List in
\* a map of Number.
Misfit(t, c) ==
    /\ IsKnownValue(c)
    /\ c.kind # t.kind
    /\ c.kind \in {"String", "Number"} \/ t.kind \in {"String", "Number"}

\* The known container v holds a misfit, directly or in a known container
\* inside it.
RECURSIVE HasMisfit(_)
HasMisfit(v) ==
    \E k \in DOMAIN Payload(v) :
        LET c == Payload(v)[k]
        IN  \/ Misfit(ChildType(TypeOf(v), k), c)
            \/ IsKnownValue(c) /\ IsContainerType(c) /\ HasMisfit(c)

(***************************************************************************)
(* C11.  Encode re-validation: ToTerraformValue of a known List, Map or    *)
(* Object that holds a child whose encoding does not fit the declared      *)
(* element or attribute type returns an error and no wire container; and   *)
(* every wire container it does return holds only children that carry the *)
(* declared wire type and whose payload is of that type at every level.    *)
(***************************************************************************)
C11_EncodeRevalidates ==
    /\ Returned("ToTerraformValue")
    /\ IsKnownValue(call.v)
    /\ IsContainerType(call.v)
    => /\ HasMisfit(call.v) => ret.err # NoErr
       /\ ret.err # NoErr => ret.val = GoNil
       /\ ret.err = NoErr =>
             LET kids == IF ret.val.go = "slice" THEN ret.val.items ELSE ret.val.entries
             IN  \A k \in DOMAIN kids :
                    /\ kids[k].typ = TerraformType(ChildType(TypeOf(call.v), k))
                    /\ WireConforms(kids[k])

C11_Witness ==
    /\ Returned("ToTerraformValue")
    /\ call.v.kind = "List"
    /\ call.v.ElemType = StringType
    /\ Len(call.v.Elems.items) = 2
    /\ call.v.Elems.items[1] = String(FALSE, FALSE, "x")
    /\ call.v.Elems.items[2] = Number(FALSE, FALSE, One53)
    /\ ret.val = GoNil
    /\ ret.err = ValidateError(TFString, GoFloat(One53), TRUE)

(***************************************************************************)
(* Path steps.  tftypes.AttributePathStep is one of AttributeName,         *)
(* ElementKeyInt, ElementKeyString and ElementKeyValue.  A step applied to *)
(* a type or to a node of a schema returns (interface{}, error); NilType   *)
(* stands for the nil interface in the first place.                        *)
(***************************************************************************)
AttributeName(n) == [step |-> "AttributeName", name |-> n]

ElementKeyInt(i) == [step |-> "ElementKeyInt", idx |-> i]

ElementKeyString(k) == [step |-> "ElementKeyString", key |-> k]

ElementKeyValue == [step |-> "ElementKeyValue"]

\* fmt.Errorf("cannot apply step %T to ...", step)
CannotApply(to, step) == [err |-> "CannotApply", to |-> to, step |-> step.step]

\* fmt.Errorf("could not find attribute %q in schema", v) and its like
NotFound(in, name) == [err |-> "NotFound", in |-> in, name |-> name]

\* Faulty variant: every step kind is taken for an index.
ListType_ApplyTerraform5AttributePathStep_AnyStep(l, step) ==
    Result(l.ElemType, NoErr)

ListType_ApplyTerraform5AttributePathStep(l, step) ==
    IF step.step # "ElementKeyInt" THEN Result(NilType, CannotApply("ListType", step))
    ELSE Result(l.ElemType, NoErr)

MapType_ApplyTerraform5AttributePathStep(m, step) ==
    IF step.step # "ElementKeyString" THEN Result(NilType, CannotApply("MapType", step))
    ELSE Result(m.ElemType, NoErr)

\* Indexing a Go map with a missing key yields the zero value: the nil
\* attr.Type, returned with a nil error.
ObjectType_ApplyTerraform5AttributePathStep(o, step) ==
    IF step.step # "AttributeName" THEN Result(NilType, CannotApply("ObjectType", step))
    ELSE IF step.name \in DOMAIN o.AttrTypes THEN Result(o.AttrTypes[step.name], NoErr)
    ELSE Result(NilType, NoErr)

\* A primitive has nothing to step into.
primitive_ApplyTerraform5AttributePathStep(p, step) ==
    Result(NilType, CannotApply(p.kind, step))

\* The call through the attr.Type interface.
TypeStep(t, step) ==
    CASE t.kind = "List" -> ListType_ApplyTerraform5AttributePathStep(t, step)
      [] t.kind = "Map" -> MapType_ApplyTerraform5AttributePathStep(t, step)
      [] t.kind = "Object" -> ObjectType_ApplyTerraform5AttributePathStep(t, step)
      [] OTHER -> primitive_ApplyTerraform5AttributePathStep(t, step)

(***************************************************************************)
(* Schema.  An Attribute holds a Type (a leaf) or Attributes (a nested     *)
(* group); NestedAttributes is one of the four nesting modes around a      *)
(* nestedAttributes map.  The item bounds of a group are stored only and   *)
(* are left out.                                                           *)
(***************************************************************************)
NestingModeSingle == "Single"

NestingModeList == "List"

NestingModeSet == "Set"

NestingModeMap == "Map"

NestingModes == {NestingModeSingle, NestingModeList, NestingModeSet, NestingModeMap}

Attribute(type, attributes) == [kind |-> "Attribute", Type |-> type, Attributes |-> attributes]

nestedAttributes(attrs) == [kind |-> "nestedAttributes", attrs |-> attrs]

NestedAttributes(mode, attrs) == [kind |-> "NestedAttributes", mode |-> mode, attrs |-> attrs]

Schema(attributes) == [kind |-> "Schema", Attributes |-> attributes]

IsAttrType(x) == x.kind \in {"String", "Number", "Provider", "List", "Map", "Object"}

\* Faulty variant: a name the schema does not have yields the zero
\* Attribute and no error.
Schema_ApplyTerraform5AttributePathStep_ZeroAttribute(s, step) ==
    IF step.step = "AttributeName"
    THEN IF step.name \in DOMAIN s.Attributes THEN Result(s.Attributes[step.name], NoErr)
         ELSE Result(Attribute(NilType, NilType), NoErr)
    ELSE Result(NilType, CannotApply("schema", step))

Schema_ApplyTerraform5AttributePathStep(s, step) ==
    IF step.step = "AttributeName"
    THEN IF step.name \in DOMAIN s.Attributes THEN Result(s.Attributes[step.name], NoErr)
         ELSE Result(NilType, NotFound("schema", step.name))
    ELSE Result(NilType, CannotApply("schema", step))

nestedAttributes_ApplyTerraform5AttributePathStep(n, step) ==
    IF step.step # "AttributeName" THEN Result(NilType, CannotApply("Attributes", step))
    ELSE IF step.name \notin DOMAIN n.attrs THEN Result(NilType, NotFound("Attributes", step.name))
    ELSE Result(n.attrs[step.name], NoErr)

listNestedAttributes_ApplyTerraform5AttributePathStep(l, step) ==
    IF step.step # "ElementKeyInt" THEN Result(NilType, CannotApply("ListNestedAttributes", step))
    ELSE Result(nestedAttributes(l.attrs), NoErr)

setNestedAttributes_ApplyTerraform5AttributePathStep(n, step) ==
    IF step.step # "ElementKeyValue" THEN Result(NilType, CannotApply("sets", step))
    ELSE Result(nestedAttributes(n.attrs), NoErr)

mapNestedAttributes_ApplyTerraform5AttributePathStep(m, step) ==
    IF step.step # "ElementKeyString" THEN Result(NilType, CannotApply("maps", step))
    ELSE Result(nestedAttributes(m.attrs), NoErr)

\* The call through the NestedAttributes interface; a single-nested group
\* steps as the nestedAttributes it embeds.
NestedAttributes_ApplyTerraform5AttributePathStep(n, step) ==
    CASE n.mode = NestingModeList -> listNestedAttributes_ApplyTerraform5AttributePathStep(n, step)
      [] n.mode = NestingModeSet -> setNestedAttributes_ApplyTerraform5AttributePathStep(n, step)
      [] n.mode = NestingModeMap -> mapNestedAttributes_ApplyTerraform5AttributePathStep(n, step)
      [] OTHER -> nestedAttributes_ApplyTerraform5AttributePathStep(n, step)

\* An Attribute hands the step to its Type or, without one, to its
\* Attributes.
Attribute_ApplyTerraform5AttributePathStep(a, step) ==
    IF a.Type # NilType THEN TypeStep(a.Type, step)
    ELSE IF a.Attributes # NilType
    THEN NestedAttributes_ApplyTerraform5AttributePathStep(a.Attributes, step)
    ELSE Result(NilType, [err |-> "NoTypeOrAttributes"])

\* stepper.ApplyTerraform5AttributePathStep(step)
ApplyTerraform5AttributePathStep(in, step) ==
    CASE in.kind = "Schema" -> Schema_ApplyTerraform5AttributePathStep(in, step)
      [] in.kind = "Attribute" -> Attribute_ApplyTerraform5AttributePathStep(in, step)
      [] in.kind = "NestedAttributes" -> NestedAttributes_ApplyTerraform5AttributePathStep(in, step)
      [] in.kind = "nestedAttributes" -> nestedAttributes_ApplyTerraform5AttributePathStep(in, step)
      [] OTHER -> TypeStep(in, step)

ErrNotAttributePathStepper == [err |-> "ErrNotAttributePathStepper"]

\* tftypes.WalkAttributePath: applies the steps of path one by one and
\* returns what the last one yields, or the node at which a step failed,
\* the path that was left and the error.
RECURSIVE WalkAttributePath(_, _)
WalkAttributePath(in, path) ==
    IF path = << >> THEN [val |-> in, remaining |-> path, err |-> NoErr]
    ELSE IF in = NilType
    THEN [val |-> in, remaining |-> path, err |-> ErrNotAttributePathStepper]
    ELSE LET next == ApplyTerraform5AttributePathStep(in, Head(path))
         IN  IF next.err # NoErr
             THEN [val |-> in, remaining |-> path, err |-> next.err]
             ELSE WalkAttributePath(next.val, Tail(path))

(***************************************************************************)
(* Lowering a schema to a type.  AttributeType has no error result: what   *)
(* the caller gets is the returned attr.Type alone, and NilType is nil.    *)
(***************************************************************************)
RECURSIVE NestedAttributes_AttributeType(_)
nestedAttributes_AttributeType(n) ==
    LET set == {name \in DOMAIN n.attrs :
                   n.attrs[name].Type # NilType \/ n.attrs[name].Attributes # NilType}
    IN  ObjectType([name \in set |->
                      IF n.attrs[name].Attributes # NilType
                      THEN NestedAttributes_AttributeType(n.attrs[name].Attributes)
                      ELSE n.attrs[name].Type])

\* Faulty variant: the object of the group is returned unwrapped.
listNestedAttributes_AttributeType_Unwrapped(l) ==
    nestedAttributes_AttributeType(l)

listNestedAttributes_AttributeType(l) ==
    ListType(nestedAttributes_AttributeType(l))

setNestedAttributes_AttributeType(n) == NilType

mapNestedAttributes_AttributeType(m) == NilType

\* The call through the NestedAttributes interface.
NestedAttributes_AttributeType(n) ==
    CASE n.mode = NestingModeList -> listNestedAttributes_AttributeType(n)
      [] n.mode = NestingModeSet -> setNestedAttributes_AttributeType(n)
      [] n.mode = NestingModeMap -> mapNestedAttributes_AttributeType(n)
      [] OTHER -> nestedAttributes_AttributeType(n)

Schema_AttributeType(s) ==
    LET set == {name \in DOMAIN s.Attributes :
                   s.Attributes[name].Type # NilType \/ s.Attributes[name].Attributes # NilType}
    IN  ObjectType([name \in set |->
                      IF s.Attributes[name].Attributes # NilType
                      THEN NestedAttributes_AttributeType(s.Attributes[name].Attributes)
                      ELSE s.Attributes[name].Type])

(***************************************************************************)
(* Schema.AttributeAtPath.                                                 *)
(***************************************************************************)
ErrPathInsideAtomicAttribute == [err |-> "ErrPathInsideAtomicAttribute"]

\* fmt.Errorf("%v still remains in the path: %w", remaining, err)
StillRemains(remaining, err) == [err |-> "StillRemains", remaining |-> remaining, wrapped |-> err]

\* fmt.Errorf("got unexpected type %T", res)
UnexpectedType(res) == [err |-> "UnexpectedType", got |-> res.kind]

\* Faulty variant: what the walk found is not tested for being a Type.
Schema_AttributeAtPath_NoTypeTest(s, path) ==
    LET w == WalkAttributePath(s, path)
    IN  IF w.err # NoErr
        THEN Result(Attribute(NilType, NilType), StillRemains(w.remaining, w.err))
        ELSE IF w.val.kind # "Attribute"
        THEN Result(Attribute(NilType, NilType), UnexpectedType(w.val))
        ELSE Result(w.val, NoErr)

Schema_AttributeAtPath(s, path) ==
    LET w == WalkAttributePath(s, path)
    IN  IF w.err # NoErr
        THEN Result(Attribute(NilType, NilType), StillRemains(w.remaining, w.err))
        ELSE IF IsAttrType(w.val)
        THEN Result(Attribute(NilType, NilType), ErrPathInsideAtomicAttribute)
        ELSE IF w.val.kind # "Attribute"
        THEN Result(Attribute(NilType, NilType), UnexpectedType(w.val))
        ELSE Result(w.val, NoErr)

(***************************************************************************)
(* The schemas, steps and paths the operations are applied to.             *)
(***************************************************************************)
MaxPath == 3

PathSteps ==
    {AttributeName("a"), AttributeName("b"), ElementKeyInt(0), ElementKeyString("k"),
     ElementKeyValue}

Paths == SeqUpTo(PathSteps, MaxPath)

\* The steps applied to a type: more indexes, keys and names.
TypeSteps ==
    PathSteps \cup {ElementKeyInt(7), ElementKeyString("a"), AttributeName("k"),
                    AttributeName("zz")}

SchemaLeafTypes ==
    {StringType, ListType(StringType), MapType(StringType), ObjA, ListType(ObjA)}

LeafAttributes == {Attribute(t, NilType) : t \in SchemaLeafTypes}

InnerAttributes == {Attribute(StringType, NilType), Attribute(ListType(StringType), NilType)}

\* Groups of leaves, and groups that hold a group.
Groups1 ==
    {NestedAttributes(mode, attrs) :
        mode \in NestingModes, attrs \in PartialMaps(InnerAttributes)}

Groups2 ==
    {NestedAttributes(mode, attrs) :
        mode \in NestingModes,
        attrs \in UNION {{"a" :> Attribute(NilType, g),
                          "a" :> Attribute(NilType, g) @@ "b" :> Attribute(StringType, NilType)} :
                            g \in {h \in Groups1 : DOMAIN h.attrs = {"a"}}}}

Groups == Groups1 \cup Groups2

\* Leaves, groups, an Attribute with neither Type nor Attributes, and one
\* with both.
TopAttributes ==
    LeafAttributes \cup {Attribute(NilType, g) : g \in Groups} \cup
    {Attribute(NilType, NilType),
     Attribute(StringType, NestedAttributes(NestingModeSingle, "a" :> Attribute(StringType, NilType)))}

SecondAttributes ==
    {Attribute(NumberType, NilType),
     Attribute(NilType, NestedAttributes(NestingModeList, "a" :> Attribute(StringType, NilType)))}

PathSchemas == {Schema("a" :> x) : x \in TopAttributes}

Schemas ==
    {Schema(<< >>)} \cup PathSchemas \cup
    {Schema("a" :> x @@ "b" :> y) : x \in TopAttributes, y \in SecondAttributes}

(***************************************************************************)
(* The state machine of the type steps and of the schema.                  *)
(***************************************************************************)
SchemaInit ==
    /\ \/ \E t \in EqualTypes, step \in TypeSteps :
             call = [op |-> "Type.ApplyTerraform5AttributePathStep", t |-> t, step |-> step]
       \/ \E s \in Schemas : call = [op |-> "Schema.AttributeType", s |-> s]
       \/ \E n \in Groups : call = [op |-> "NestedAttributes.AttributeType", n |-> n]
       \/ \E s \in PathSchemas, path \in Paths :
             call = [op |-> "Schema.AttributeAtPath", s |-> s, path |-> path]
    /\ ret = NoRet
    /\ src = NoSrc

\* t.ApplyTerraform5AttributePathStep(step)
StepType ==
    /\ call.op = "Type.ApplyTerraform5AttributePathStep"
    /\ ret = NoRet
    /\ ret' = TypeStep(call.t, call.step)
    /\ UNCHANGED <<call, src>>

\* s.AttributeType()
LowerSchema ==
    /\ call.op = "Schema.AttributeType"
    /\ ret = NoRet
    /\ ret' = Result(Schema_AttributeType(call.s), NoErr)
    /\ UNCHANGED <<call, src>>

\* n.AttributeType()
LowerNested ==
    /\ call.op = "NestedAttributes.AttributeType"
    /\ ret = NoRet
    /\ ret' = Result(NestedAttributes_AttributeType(call.n), NoErr)
    /\ UNCHANGED <<call, src>>

\* s.AttributeAtPath(path)
ResolveAttribute ==
    /\ call.op = "Schema.AttributeAtPath"
    /\ ret = NoRet
    /\ ret' = Schema_AttributeAtPath(call.s, call.path)
    /\ UNCHANGED <<call, src>>

SchemaNext ==
    \/ StepType
    \/ LowerSchema
    \/ LowerNested
    \/ ResolveAttribute

SchemaSpec == SchemaInit /\ [][SchemaNext]_vars

(***************************************************************************)
(* C12.  Object path step, as stated: an AttributeName(n) step on an       *)
(* ObjectType returns the type registered for n when n is an attribute,    *)
(* a not-found error and no type when it is not; every other step kind     *)
(* returns an error and no type.                                           *)
(***************************************************************************)
C12_ObjectStep ==
    /\ Returned("Type.ApplyTerraform5AttributePathStep")
    /\ call.t.kind = "Object"
    => IF call.step.step # "AttributeName"
       THEN ret.val = NilType /\ ret.err # NoErr
       ELSE IF call.step.name \in DOMAIN call.t.AttrTypes
       THEN ret = Result(call.t.AttrTypes[call.step.name], NoErr)
       ELSE ret.val = NilType /\ ret.err # NoErr

\* What is left of C12 on the code: registered names and other step kinds.
ObjectStepOnRegisteredNames ==
    /\ Returned("Type.ApplyTerraform5AttributePathStep")
    /\ call.t.kind = "Object"
    => IF call.step.step # "AttributeName"
       THEN ret = Result(NilType, CannotApply("ObjectType", call.step))
       ELSE IF call.step.name \in DOMAIN call.t.AttrTypes
       THEN ret = Result(call.t.AttrTypes[call.step.name], NoErr)
       ELSE ret = Result(NilType, NoErr)

(***************************************************************************)
(* C13.  List and Map path step: an ElementKeyInt step on a ListType and   *)
(* an ElementKeyString step on a MapType return the element type of the    *)
(* container and no error, whatever the index or key; every other step     *)
(* kind returns an error and no type.                                      *)
(***************************************************************************)
C13_ElementStep ==
    /\ Returned("Type.ApplyTerraform5AttributePathStep")
    /\ call.t.kind \in {"List", "Map"}
    => IF \/ call.t.kind = "List" /\ call.step.step = "ElementKeyInt"
          \/ call.t.kind = "Map" /\ call.step.step = "ElementKeyString"
       THEN ret = Result(call.t.ElemType, NoErr)
       ELSE ret.val = NilType /\ ret.err # NoErr /\ ret.err.step = call.step.step

C13_Witness ==
    /\ Returned("Type.ApplyTerraform5AttributePathStep")
    /\ call.t = ListType(ObjA)
    /\ call.step = ElementKeyString("k")
    /\ ret = Result(NilType, CannotApply("ListType", call.step))

(***************************************************************************)
(* Lowering, seen from the caller.                                         *)
(***************************************************************************)
IsLeaf(a) == a.Type # NilType /\ a.Attributes = NilType

IsGroup(a, modes) == a.Type = NilType /\ a.Attributes # NilType /\ a.Attributes.mode \in modes

\* Every attribute of attrs, at every depth, is a leaf or a group of one
\* of the modes.
RECURSIVE BuiltFrom(_, _)
BuiltFrom(attrs, modes) ==
    \A name \in DOMAIN attrs :
        \/ IsLeaf(attrs[name])
        \/ IsGroup(attrs[name], modes) /\ BuiltFrom(attrs[name].Attributes.attrs, modes)

\* Some attribute of attrs, at some depth, is a group of the mode.
RECURSIVE Holds(_, _)
Holds(attrs, mode) ==
    \E name \in DOMAIN attrs :
        /\ attrs[name].Attributes # NilType
        /\ \/ attrs[name].Attributes.mode = mode
           \/ Holds(attrs[name].Attributes.attrs, mode)

\* The type an attribute stands for: its own Type for a leaf, the object
\* of its children for a Single group, a list or a map of that object for
\* a List or a Map group.
RECURSIVE TypeOfAttribute(_)
TypeOfAttribute(a) ==
    IF IsLeaf(a) THEN a.Type
    ELSE LET object == ObjectType([name \in DOMAIN a.Attributes.attrs |->
                                      TypeOfAttribute(a.Attributes.attrs[name])])
         IN  CASE a.Attributes.mode = NestingModeList -> ListType(object)
               [] a.Attributes.mode = NestingModeMap -> MapType(object)
               [] OTHER -> object

(***************************************************************************)
(* C14.  Lowering of leaves, Single and List groups: for a schema built,   *)
(* at every depth, from leaf attributes and Single and List groups,        *)
(* Schema.AttributeType returns an ObjectType with exactly one attribute   *)
(* per attribute name: the Type of a leaf, the ObjectType lowered from the *)
(* children of a Single group, the ListType of that ObjectType for a List  *)
(* group.  A group's own AttributeType returns the same.                   *)
(***************************************************************************)
C14_LowerLeafSingleList ==
    /\ /\ Returned("Schema.AttributeType")
       /\ BuiltFrom(call.s.Attributes, {NestingModeSingle, NestingModeList})
       => /\ ret.val.kind = "Object"
          /\ DOMAIN ret.val.AttrTypes = DOMAIN call.s.Attributes
          /\ \A name \in DOMAIN call.s.Attributes :
                ret.val.AttrTypes[name] = TypeOfAttribute(call.s.Attributes[name])
    /\ /\ Returned("NestedAttributes.AttributeType")
       /\ call.n.mode \in {NestingModeSingle, NestingModeList}
       /\ BuiltFrom(call.n.attrs, {NestingModeSingle, NestingModeList})
       => ret.val = TypeOfAttribute(Attribute(NilType, call.n))

C14_Witness ==
    /\ Returned("Schema.AttributeType")
    /\ call.s = Schema("a" :> Attribute(NilType,
                           NestedAttributes(NestingModeList,
                               "a" :> Attribute(NilType,
                                   NestedAttributes(NestingModeSingle,
                                       "a" :> Attribute(StringType, NilType)))))
                       @@ "b" :> Attribute(NumberType, NilType))
    /\ ret.val = ObjectType("a" :> ListType(ObjectType("a" :> ObjA)) @@ "b" :> NumberType)

(***************************************************************************)
(* C15.  Lowering of Map groups, as stated: a Map group lowers to the      *)
(* MapType of the ObjectType lowered from its children, from the group's   *)
(* own AttributeType and inside Schema.AttributeType.                      *)
(***************************************************************************)
C15_LowerMap ==
    /\ /\ Returned("Schema.AttributeType")
       /\ BuiltFrom(call.s.Attributes, {NestingModeSingle, NestingModeList, NestingModeMap})
       => /\ ret.val.kind = "Object"
          /\ DOMAIN ret.val.AttrTypes = DOMAIN call.s.Attributes
          /\ \A name \in DOMAIN call.s.Attributes :
                ret.val.AttrTypes[name] = TypeOfAttribute(call.s.Attributes[name])
    /\ /\ Returned("NestedAttributes.AttributeType")
       /\ call.n.mode = NestingModeMap
       /\ BuiltFrom(call.n.attrs, {NestingModeSingle, NestingModeList, NestingModeMap})
       => ret.val = TypeOfAttribute(Attribute(NilType, call.n))

(***************************************************************************)
(* C16.  Lowering of Set groups, as stated: lowering a schema that holds a *)
(* Set group reports that it is not implemented; no Type is returned as if *)
(* lowering had succeeded, an ObjectType in which the attribute is missing *)
(* or nil included.                                                        *)
(***************************************************************************)
C16_LowerSetReports ==
    /\ Returned("Schema.AttributeType")
    /\ Holds(call.s.Attributes, NestingModeSet)
    => ret.err # NoErr

\* What the code does for Map and Set groups: the group's AttributeType is
\* nil, and the ObjectType of the schema holds nil under the group's name.
MapAndSetLowerToNil ==
    /\ /\ Returned("NestedAttributes.AttributeType")
       /\ call.n.mode \in {NestingModeSet, NestingModeMap}
       => ret = Result(NilType, NoErr)
    /\ Returned("Schema.AttributeType") =>
          /\ ret.err = NoErr
          /\ ret.val.kind = "Object"
          /\ \A name \in DOMAIN call.s.Attributes :
                /\ call.s.Attributes[name].Attributes # NilType
                /\ call.s.Attributes[name].Attributes.mode \in {NestingModeSet, NestingModeMap}
                => /\ name \in DOMAIN ret.val.AttrTypes
                   /\ ret.val.AttrTypes[name] = NilType

(***************************************************************************)
(* Path resolution, seen from the caller.                                  *)
(***************************************************************************)
\* The first i steps of path lead to an Attribute that has a Type.
LeafAt(s, path, i) ==
    LET w == WalkAttributePath(s, SubSeq(path, 1, i))
    IN  w.err = NoErr /\ w.val.kind = "Attribute" /\ w.val.Type # NilType

LeafTypeAt(s, path, i) == WalkAttributePath(s, SubSeq(path, 1, i)).val.Type

\* The part of t that the steps of rest address: an element of a list for
\* an index, an element of a map for a key, an attribute of an object for
\* one of its names.  NilType when a step addresses nothing in t.
RECURSIVE TypeAt(_, _)
TypeAt(t, rest) ==
    IF rest = << >> THEN t
    ELSE LET step == Head(rest)
         IN  CASE t.kind = "List" /\ step.step = "ElementKeyInt" ->
                      TypeAt(t.ElemType, Tail(rest))
               [] t.kind = "Map" /\ step.step = "ElementKeyString" ->
                      TypeAt(t.ElemType, Tail(rest))
               [] /\ t.kind = "Object"
                  /\ step.step = "AttributeName"
                  /\ step.name \in DOMAIN t.AttrTypes ->
                      TypeAt(t.AttrTypes[step.name], Tail(rest))
               [] OTHER -> NilType

FieldKinds == {"string", "pointer", "unknownable", "nullable", "attrValue", "valueConverter"}

StructTarget(fields) == [native |-> "struct", fields |-> fields]

Options(null, unknown) == [UnhandledNullAsEmpty |-> null, UnhandledUnknownAsEmpty |-> unknown]

CanBeUnknown(kind) == kind \in {"unknownable", "attrValue", "valueConverter"}

CanBeNull(kind) == kind \in {"pointer", "nullable", "attrValue", "valueConverter"}

\* reflect.Zero(target.Type())
Zero(kind) ==
    IF kind = "string" THEN [native |-> "string", str |-> ""]
    ELSE [native |-> kind, zero |-> TRUE]

NoResult == [native |-> "none"]

UnhandledUnknown(field) == [err |-> "UnhandledUnknown", path |-> field]

UnhandledNull(field) == [err |-> "UnhandledNull", path |-> field]

\* Faulty variant: a field that can hold the unknown or null sentinel is
\* emptied when the flag allows it.
BuildValue_FlagsFirst(typ, val, kind, opts, field) ==
    IF ~IsKnown(val) /\ opts.UnhandledUnknownAsEmpty THEN Result(Zero(kind), NoErr)
    ELSE IF IsNull(val) /\ opts.UnhandledNullAsEmpty THEN Result(Zero(kind), NoErr)
    ELSE IF kind = "valueConverter" THEN Result([native |-> kind, got |-> val.value], NoErr)
    ELSE IF kind = "attrValue" THEN stringValueFromTerraform(val)
    ELSE IF ~IsKnown(val)
    THEN IF kind = "unknownable"
         THEN Result([native |-> kind, Unknown |-> TRUE, str |-> ""], NoErr)
         ELSE Result(NoResult, UnhandledUnknown(field))
    ELSE IF IsNull(val)
    THEN CASE kind = "pointer" -> Result([native |-> kind, nil |-> TRUE, str |-> ""], NoErr)
           [] kind = "nullable" -> Result([native |-> kind, Null |-> TRUE, str |-> ""], NoErr)
           [] OTHER -> Result(NoResult, UnhandledNull(field))
    ELSE CASE kind = "string" -> Result([native |-> kind, str |-> val.value.str], NoErr)
           [] kind = "pointer" ->
                 Result([native |-> kind, nil |-> FALSE, str |-> val.value.str], NoErr)
           [] kind = "unknownable" ->
                 Result([native |-> kind, Unknown |-> FALSE, str |-> val.value.str], NoErr)
           [] kind = "nullable" ->
                 Result([native |-> kind, Null |-> FALSE, str |-> val.value.str], NoErr)

\* Builds the native value of one field of a string attribute.  A field
\* that can hold the sentinel of an unknown or null value receives it; for
\* another field the flag of opts decides between the zero value and the
\* unhandled error.
BuildValue(typ, val, kind, opts, field) ==
    IF kind = "valueConverter" THEN Result([native |-> kind, got |-> val.value], NoErr)
    ELSE IF kind = "attrValue" THEN stringValueFromTerraform(val)
    ELSE IF ~IsKnown(val)
    THEN IF kind = "unknownable"
         THEN Result([native |-> kind, Unknown |-> TRUE, str |-> ""], NoErr)
         ELSE IF opts.UnhandledUnknownAsEmpty THEN Result(Zero(kind), NoErr)
         ELSE Result(NoResult, UnhandledUnknown(field))
    ELSE IF IsNull(val)
    THEN CASE kind = "pointer" -> Result([native |-> kind, nil |-> TRUE, str |-> ""], NoErr)
           [] kind = "nullable" -> Result([native |-> kind, Null |-> TRUE, str |-> ""], NoErr)
           [] OTHER ->
                 IF opts.UnhandledNullAsEmpty THEN Result(Zero(kind), NoErr)
                 ELSE Result(NoResult, UnhandledNull(field))
    ELSE CASE kind = "string" -> Result([native |-> kind, str |-> val.value.str], NoErr)
           [] kind = "pointer" ->
                 Result([native |-> kind, nil |-> FALSE, str |-> val.value.str], NoErr)
           [] kind = "unknownable" ->
                 Result([native |-> kind, Unknown |-> FALSE, str |-> val.value.str], NoErr)
           [] kind = "nullable" ->
                 Result([native |-> kind, Null |-> FALSE, str |-> val.value.str], NoErr)

\* "mismatch between struct and object: Struct defines fields not found in
\* object: ... Object defines fields not found in struct: ..."
Mismatch(objectMissing, targetMissing) ==
    [err |-> "Mismatch", structOnly |-> objectMissing, objectOnly |-> targetMissing]

\* Faulty variant: only the fields the object lacks are looked for.
Struct_ObjectMissingOnly(typ, object, target, opts, ord) ==
    LET objectFields  == object.value.entries
        targetFields  == target.fields
        objectMissing == DOMAIN targetFields \ DOMAIN objectFields
    IN  IF target.native # "struct"
        THEN Result(NoResult, [err |-> "NotAStruct", got |-> target.native])
        ELSE IF object.typ.tf # "Object"
        THEN Result(NoResult, [err |-> "NotAnObject", got |-> object.typ])
        ELSE IF objectMissing # {}
        THEN Result(NoResult, Mismatch(objectMissing, {}))
        ELSE IF \E f \in DOMAIN targetFields : f \notin DOMAIN typ.AttrTypes
        THEN Result(NoResult, [err |-> "NoTypeForField"])
        ELSE LET built  == [f \in DOMAIN targetFields |->
                               BuildValue(typ.AttrTypes[f], objectFields[f],
                                          targetFields[f], opts, f)]
                 failed == {f \in DOMAIN targetFields : built[f].err # NoErr}
             IN  IF failed # {} THEN Result(NoResult, built[FirstKey(ord, failed)].err)
                 ELSE Result([native |-> "struct",
                              fields |-> [f \in DOMAIN targetFields |-> built[f].val]],
                             NoErr)

\* Faulty variant: a struct without fields is filled from any value.
Struct_EmptyStructAnyValue(typ, object, target, opts, ord) ==
    LET objectFields  == object.value.entries
        targetFields  == target.fields
        objectMissing == DOMAIN targetFields \ DOMAIN objectFields
        targetMissing == DOMAIN objectFields \ DOMAIN targetFields
    IN  IF target.native # "struct"
        THEN Result(NoResult, [err |-> "NotAStruct", got |-> target.native])
        ELSE IF DOMAIN target.fields = {}
        THEN Result([native |-> "struct", fields |-> << >>], NoErr)
        ELSE IF object.typ.tf # "Object"
        THEN Result(NoResult, [err |-> "NotAnObject", got |-> object.typ])
        ELSE IF objectMissing # {} \/ targetMissing # {}
        THEN Result(NoResult, Mismatch(objectMissing, targetMissing))
        ELSE IF \E f \in DOMAIN targetFields : f \notin DOMAIN typ.AttrTypes
        THEN Result(NoResult, [err |-> "NoTypeForField"])
        ELSE LET built  == [f \in DOMAIN targetFields |->
                               BuildValue(typ.AttrTypes[f], objectFields[f],
                                          targetFields[f], opts, f)]
                 failed == {f \in DOMAIN targetFields : built[f].err # NoErr}
             IN  IF failed # {} THEN Result(NoResult, built[FirstKey(ord, failed)].err)
                 ELSE Result([native |-> "struct",
                              fields |-> [f \in DOMAIN targetFields |-> built[f].val]],
                             NoErr)

\* reflect.Struct: the target must be a struct and the value an object
\* ("expected a struct type, got ...", "can't reflect ... into a struct,
\* must be an object"); the tags of the struct and the attribute names of
\* the object must be the same set; then each field is built from the
\* attribute of its tag, and the first error ends the decode.
Struct(typ, object, target, opts, ord) ==
    LET objectFields  == object.value.entries
        targetFields  == target.fields
        objectMissing == DOMAIN targetFields \ DOMAIN objectFields
        targetMissing == DOMAIN objectFields \ DOMAIN targetFields
    IN  IF target.native # "struct"
        THEN Result(NoResult, [err |-> "NotAStruct", got |-> target.native])
        ELSE IF object.typ.tf # "Object"
        THEN Result(NoResult, [err |-> "NotAnObject", got |-> object.typ])
        ELSE IF objectMissing # {} \/ targetMissing # {}
        THEN Result(NoResult, Mismatch(objectMissing, targetMissing))
        ELSE IF \E f \in DOMAIN targetFields : f \notin DOMAIN typ.AttrTypes
        THEN Result(NoResult, [err |-> "NoTypeForField"])
        ELSE LET built  == [f \in DOMAIN targetFields |->
                               BuildValue(typ.AttrTypes[f], objectFields[f],
                                          targetFields[f], opts, f)]
                 failed == {f \in DOMAIN targetFields : built[f].err # NoErr}
             IN  IF failed # {} THEN Result(NoResult, built[FirstKey(ord, failed)].err)
                 ELSE Result([native |-> "struct",
                              fields |-> [f \in DOMAIN targetFields |-> built[f].val]],
                             NoErr)

\* reflect.Into with a pointer to a struct: a struct cannot hold the
\* sentinel of an unknown or null object.
Into(typ, val, target, opts, ord) ==
    IF ~IsKnown(val)
    THEN IF opts.UnhandledUnknownAsEmpty THEN Result(Zero("struct"), NoErr)
         ELSE Result(NoResult, UnhandledUnknown(""))
    ELSE IF IsNull(val)
    THEN IF opts.UnhandledNullAsEmpty THEN Result(Zero("struct"), NoErr)
         ELSE Result(NoResult, UnhandledNull(""))
    ELSE Struct(typ, val, target, opts, ord)

\* ObjectAsOptions{}: both flags false unless set.
ObjectAsOptions(null, unknown) ==
    [UnhandledNullAsEmpty |-> null, UnhandledUnknownAsEmpty |-> unknown]

\* Faulty variant: each flag is passed on as the other.
Object_As_FlagsSwapped(o, target, opts, ord) ==
    LET obj == ObjectType(o.AttrTypes)
        typ == TerraformType(obj)
        r   == Object_ToTerraformValue(o, ord)
    IN  IF r.err # NoErr THEN Result(NoResult, r.err)
        ELSE IF ~ValidateValue(typ, r.val)
        THEN Result(NoResult, ValidateError(typ, r.val, FALSE))
        ELSE Into(obj, NewValue(typ, r.val), target,
                  Options(opts.UnhandledUnknownAsEmpty, opts.UnhandledNullAsEmpty), ord)

\* Object.As: the object is encoded, validated against its own type and
\* handed to reflect.Into with the two flags of opts.
Object_As(o, target, opts, ord) ==
    LET obj == ObjectType(o.AttrTypes)
        typ == TerraformType(obj)
        r   == Object_ToTerraformValue(o, ord)
    IN  IF r.err # NoErr THEN Result(NoResult, r.err)
        ELSE IF ~ValidateValue(typ, r.val)
        THEN Result(NoResult, ValidateError(typ, r.val, FALSE))
        ELSE Into(obj, NewValue(typ, r.val), target,
                  Options(opts.UnhandledNullAsEmpty, opts.UnhandledUnknownAsEmpty), ord)

(***************************************************************************)
(* The objects, structs and options of the decodes into structs.           *)
(***************************************************************************)
StringObjectTypes == {ObjectType(attrs) : attrs \in PartialMaps({StringType})}

StructTargets == {StructTarget(fields) : fields \in PartialMaps(FieldKinds)}

AllOptions == {Options(null, unknown) : null \in BOOLEAN, unknown \in BOOLEAN}

\* The known objects of strings, and a string.
StructWires ==
    {w \in UNION {WiresOf(TerraformType(t)) : t \in StringObjectTypes} : ~Absent(w)} \cup
    {NewValue(TFString, GoString("x"))}

ReflectInit ==
    /\ \/ \E object \in StructWires, target \in StructTargets, opts \in AllOptions,
             ord \in Orders :
             \E typ \in {ObjA} \cup {t \in StringObjectTypes : TerraformType(t) = object.typ} :
                call = [op |-> "reflect.Struct", typ |-> typ, object |-> object,
                        target |-> target, opts |-> opts, ord |-> ord]
       \/ \E t \in StringObjectTypes, target \in StructTargets, opts \in AllOptions,
             ord \in Orders :
             \E v \in ValuesOf(t) :
                call = [op |-> "Object.As", v |-> v, target |-> target,
                        opts |-> opts, ord |-> ord]
    /\ ret = NoRet
    /\ src = NoSrc

\* reflect.Struct(ctx, typ, object, target, opts, path)
DecodeStruct ==
    /\ call.op = "reflect.Struct"
    /\ ret = NoRet
    /\ ret' = Struct(call.typ, call.object, call.target, call.opts, call.ord)
    /\ UNCHANGED <<call, src>>

\* o.As(ctx, &target, opts)
ObjectAs ==
    /\ call.op = "Object.As"
    /\ ret = NoRet
    /\ ret' = Object_As(call.v, call.target, call.opts, call.ord)
    /\ UNCHANGED <<call, src>>

ReflectNext ==
    \/ DecodeStruct
    \/ ObjectAs

ReflectSpec == ReflectInit /\ [][ReflectNext]_vars

(***************************************************************************)
(* Vocabulary of the decodes into structs: the names and the states of the *)
(* attributes of the decoded object, whether it arrives as a wire value    *)
(* (reflect.Struct) or as a known Object (Object.As).                      *)
(***************************************************************************)
DecodesStruct ==
    \/ Returned("reflect.Struct") /\ call.object.typ.tf = "Object"
    \/ Returned("Object.As") /\ IsKnownValue(call.v)

ObjectNames ==
    IF call.op = "reflect.Struct" THEN DOMAIN call.object.value.entries
    ELSE DOMAIN call.v.Attrs.entries

StructTags == DOMAIN call.target.fields

\* the attr.Type handed to the decode names a type for every field
TypeCovers ==
    call.op = "reflect.Struct" => StructTags \subseteq DOMAIN call.typ.AttrTypes

FieldState(f) ==
    IF call.op = "reflect.Struct"
    THEN LET e == call.object.value.entries[f]
         IN  IF ~IsKnown(e) THEN "unknown" ELSE IF IsNull(e) THEN "null" ELSE "known"
    ELSE LET a == call.v.Attrs.entries[f]
         IN  IF a.Unknown THEN "unknown" ELSE IF a.Null THEN "null" ELSE "known"

FieldStr(f) ==
    IF call.op = "reflect.Struct" THEN call.object.value.entries[f].value.str
    ELSE call.v.Attrs.entries[f].Value

\* the field of tag f cannot hold the state of the attribute f
Unhandled(f) ==
    \/ FieldState(f) = "unknown" /\ ~CanBeUnknown(call.target.fields[f])
    \/ FieldState(f) = "null" /\ ~CanBeNull(call.target.fields[f])

\* the flag of the state of attribute f is false
Refused(f) ==
    \/ FieldState(f) = "unknown" /\ ~call.opts.UnhandledUnknownAsEmpty
    \/ FieldState(f) = "null" /\ ~call.opts.UnhandledNullAsEmpty

UnhandledError(f) ==
    IF FieldState(f) = "unknown" THEN UnhandledUnknown(f) ELSE UnhandledNull(f)

(***************************************************************************)
(* C18.  Decoding an object into a struct succeeds only when the attribute *)
(* names of the object and the tags of the struct are the same set.  When  *)
(* they differ the decode fails with the mismatch error, which lists the   *)
(* names only the struct defines and the names only the object defines:    *)
(* the first list alone when only the object lacks names, the second alone *)
(* when only the struct lacks names, both when both sides have extras.     *)
(***************************************************************************)
C18_NameSetsMustMatch ==
    DecodesStruct =>
        /\ ret.err = NoErr => StructTags = ObjectNames
        /\ StructTags # ObjectNames =>
              ret = Result(NoResult, Mismatch(StructTags \ ObjectNames,
                                              ObjectNames \ StructTags))

C18_Witness ==
    /\ Returned("reflect.Struct")
    /\ DecodesStruct
    /\ StructTags = {"a"}
    /\ ObjectNames = {"b"}
    /\ ret = Result(NoResult, Mismatch({"a"}, {"b"}))

(***************************************************************************)
(* C19.  An unknown (resp. null) attribute decoded into a field that       *)
(* cannot hold that state fails the decode with the unhandled-unknown      *)
(* (resp. unhandled-null) error of that field when UnhandledUnknownAsEmpty *)
(* (resp. UnhandledNullAsEmpty) is false, and leaves the zero value of the *)
(* field when the flag is true.  Each flag governs its own state only.     *)
(* The same holds of an unknown or null object decoded into the struct     *)
(* itself by Object.As, whose options start with both flags false.         *)
(***************************************************************************)
C19_UnhandledFlags ==
    /\ DecodesStruct /\ StructTags = ObjectNames /\ TypeCovers =>
          LET failing == {f \in StructTags : Unhandled(f) /\ Refused(f)}
          IN  IF failing # {}
              THEN /\ ret.val = NoResult
                   /\ ret.err \in {UnhandledError(f) : f \in failing}
              ELSE /\ ret.err = NoErr
                   /\ \A f \in StructTags :
                         Unhandled(f) => ret.val.fields[f] = Zero(call.target.fields[f])
    /\ Returned("Object.As") /\ call.v.Unknown =>
          ret = IF call.opts.UnhandledUnknownAsEmpty THEN Result(Zero("struct"), NoErr)
                ELSE Result(NoResult, UnhandledUnknown(""))
    /\ Returned("Object.As") /\ ~call.v.Unknown /\ call.v.Null =>
          ret = IF call.opts.UnhandledNullAsEmpty THEN Result(Zero("struct"), NoErr)
                ELSE Result(NoResult, UnhandledNull(""))

C19_Witness ==
    /\ Returned("Object.As")
    /\ call.target.fields = ("a" :> "string")
    /\ IsKnownValue(call.v)
    /\ ObjectNames = {"a"}
    /\ FieldState("a") = "unknown"
    /\ call.opts = ObjectAsOptions(TRUE, FALSE)
    /\ ret = Result(NoResult, UnhandledUnknown("a"))

(***************************************************************************)
(* C20.  A field that can hold the state of its attribute receives it,     *)
(* whatever the two flags are: a pointer is nil for null; a field with a   *)
(* SetUnknown (resp. SetNull) setter has Unknown (resp. Null) set; a       *)
(* types.String has its Unknown or Null flag set; a value converter is     *)
(* handed the unknown or null wire value.  A known attribute is stored as  *)
(* its string.  No such field makes the decode fail.                       *)
(***************************************************************************)
C20_RepresentableTargets ==
    DecodesStruct /\ StructTags = ObjectNames /\ TypeCovers =>
        /\ (\A f \in StructTags : ~Unhandled(f)) => ret.err = NoErr
        /\ ret.err = NoErr =>
              \A f \in StructTags :
                 LET kind  == call.target.fields[f]
                     state == FieldState(f)
                     got   == ret.val.fields[f]
                 IN  /\ kind = "pointer" /\ state = "null" =>
                            got = [native |-> kind, nil |-> TRUE, str |-> ""]
                     /\ kind = "pointer" /\ state = "known" =>
                            got = [native |-> kind, nil |-> FALSE, str |-> FieldStr(f)]
                     /\ kind = "unknownable" /\ state = "unknown" =>
                            got = [native |-> kind, Unknown |-> TRUE, str |-> ""]
                     /\ kind = "unknownable" /\ state = "known" =>
                            got = [native |-> kind, Unknown |-> FALSE, str |-> FieldStr(f)]
                     /\ kind = "nullable" /\ state = "null" =>
                            got = [native |-> kind, Null |-> TRUE, str |-> ""]
                     /\ kind = "nullable" /\ state = "known" =>
                            got = [native |-> kind, Null |-> FALSE, str |-> FieldStr(f)]
                     /\ kind = "attrValue" =>
                            got = CASE state = "unknown" -> String(TRUE, FALSE, "")
                                    [] state = "null" -> String(FALSE, TRUE, "")
                                    [] OTHER -> String(FALSE, FALSE, FieldStr(f))
                     /\ kind = "valueConverter" =>
                            got = [native |-> kind,
                                   got |-> CASE state = "unknown" -> UnknownValue
                                             [] state = "null" -> GoNil
                                             [] OTHER -> GoString(FieldStr(f))]
                     /\ kind = "string" /\ state = "known" =>
                            got = [native |-> kind, str |-> FieldStr(f)]

C20_Witness ==
    /\ Returned("reflect.Struct")
    /\ DecodesStruct
    /\ call.target.fields = ("a" :> "unknownable" @@ "b" :> "pointer")
    /\ ObjectNames = {"a", "b"}
    /\ FieldState("a") = "unknown"
    /\ FieldState("b") = "null"
    /\ call.opts = Options(TRUE, TRUE)
    /\ ret.err = NoErr
    /\ ret.val.fields["a"] = [native |-> "unknownable", Unknown |-> TRUE, str |-> ""]
    /\ ret.val.fields["b"] = [native |-> "pointer", nil |-> TRUE, str |-> ""]

(***************************************************************************)
(* Native values beyond the struct of strings: numbers of the native       *)
(* numeric kinds, slices, maps and nested structs, and the fields that     *)
(* carry their own conversion.  A native number holds the big.Float that   *)
(* tftypes.NewValue makes of it: precision 64 for the integers, 53 for a   *)
(* float64, its own for a *big.Float.                                      *)
(***************************************************************************)
NumKinds == {"int", "uint", "float64", "bigInt", "bigFloat"}

NativeString(s) == [native |-> "string", str |-> s]

NativeNumber(kind, num) == [native |-> kind, num |-> num]

NativeSlice(items) == [native |-> "slice", items |-> items]

NativeMap(entries) == [native |-> "map", entries |-> entries]

NativeStruct(fields) == [native |-> "struct", fields |-> fields]

CannotStore(num, kind) == [err |-> "CannotStore", num |-> num, kind |-> kind]

\* reflect.Number: the wire number is stored into a field of the numeric
\* kind, and refused when the kind cannot hold it exactly.
reflect_Number(val, kind) ==
    LET n == val.value.num
    IN  CASE kind = "bigFloat" -> Result(NativeNumber(kind, n), NoErr)
          [] kind = "float64" ->
                IF RoundBits(n.bits, 53) = n.bits
                THEN Result(NativeNumber(kind, Float(n.neg, n.bits, 53)), NoErr)
                ELSE Result(NoResult, CannotStore(n, kind))
          [] kind = "uint" ->
                IF n.neg /\ n.bits # {} THEN Result(NoResult, CannotStore(n, kind))
                ELSE Result(NativeNumber(kind, Float(FALSE, n.bits, 64)), NoErr)
          [] OTHER -> Result(NativeNumber(kind, Float(n.neg, n.bits, 64)), NoErr)

\* reflect.BuildValue of a value known at every level into the native
\* shape of its type: a string, a number of kind num, a slice, a map, a
\* struct with one field per attribute.
RECURSIVE BuildNative(_, _, _)
BuildNative(typ, val, num) ==
    CASE typ.kind = "String" -> Result(NativeString(val.value.str), NoErr)
      [] typ.kind = "Number" -> reflect_Number(val, num)
      [] typ.kind = "List" ->
            LET items == val.value.items
                built == [i \in 1..Len(items) |-> BuildNative(typ.ElemType, items[i], num)]
                bad   == {i \in 1..Len(items) : built[i].err # NoErr}
            IN  IF bad # {} THEN Result(NoResult, built[MinOf(bad)].err)
                ELSE Result(NativeSlice([i \in 1..Len(items) |-> built[i].val]), NoErr)
      [] OTHER ->
            LET entries == val.value.entries
                built   == [k \in DOMAIN entries |->
                               BuildNative(ChildType(typ, k), entries[k], num)]
                bad     == {k \in DOMAIN entries : built[k].err # NoErr}
                vals    == [k \in DOMAIN entries |-> built[k].val]
            IN  IF bad # {} THEN Result(NoResult, built[CHOOSE k \in bad : TRUE].err)
                ELSE IF typ.kind = "Map" THEN Result(NativeMap(vals), NoErr)
                ELSE Result(NativeStruct(vals), NoErr)

NoTypeForField(name) == [err |-> "NoTypeForField", name |-> name]

\* The children of a slice, map or struct, by index, key or tag.
NativeChildren(val) ==
    CASE val.native = "slice" -> val.items
      [] val.native = "map" -> val.entries
      [] OTHER -> val.fields

\* The first error among the converted children, in the order they are
\* visited: by index in a slice, in the order of the range over a map or
\* over the tags of a struct.
FirstChildError(val, tfVals, ord) ==
    LET bad == {k \in DOMAIN tfVals : tfVals[k].err # NoErr}
    IN  IF bad = {} THEN NoErr
        ELSE IF val.native = "slice" THEN tfVals[MinOf(bad)].err
        ELSE tfVals[FirstKey(ord, bad)].err

\* reflect.FromSlice, reflect.FromMap and reflect.FromStruct, after their
\* loop: the tftypes.Value made of the converted and encoded children,
\* typed by the element type, or for a struct by the types of the fields
\* that were converted.
ContainerWire(typ, val, tfVals) ==
    CASE val.native = "slice" ->
            NewValue(TFList(TerraformType(typ.ElemType)),
                     GoSlice([i \in DOMAIN tfVals |-> tfVals[i].val]))
      [] val.native = "map" ->
            NewValue(TFMap(TerraformType(typ.ElemType)),
                     GoMap([k \in DOMAIN tfVals |-> tfVals[k].val]))
      [] OTHER ->
            NewValue(TFObject([k \in DOMAIN tfVals |-> TerraformType(typ.AttrTypes[k])]),
                     GoMap([k \in DOMAIN tfVals |-> tfVals[k].val]))

\* The wire value a field that is no container is handed to
\* typ.ValueFromTerraform as: the unknown or null value of the type's wire
\* type for a field that says so, else the value tftypes.NewValue makes of
\* the native value.
ScalarWire(typ, val) ==
    CASE val.native = "unknownable" ->
            IF val.Unknown THEN NewValue(TerraformType(typ), UnknownValue)
            ELSE NewValue(TFString, GoString(val.str))
      [] val.native = "nullable" ->
            IF val.Null THEN NewValue(TerraformType(typ), GoNil)
            ELSE NewValue(TFString, GoString(val.str))
      [] val.native = "pointer" ->
            IF val.nil THEN NewValue(TerraformType(typ), GoNil)
            ELSE NewValue(TFString, GoString(val.str))
      [] val.native = "valueCreator" -> NewValue(TerraformType(typ), val.raw)
      [] val.native = "string" -> NewValue(TFString, GoString(val.str))
      [] val.native \in NumKinds -> NewValue(TFNumber, GoFloat(val.num))

\* reflect.FromValue.  An attr.Value is used as it is.  A slice, map or
\* struct has each child converted with the type of the child, encoded and
\* validated (a tag the type does not name ends FromStruct), and the
\* container of them is decoded by typ.  Every other field is handed to
\* typ.ValueFromTerraform as its wire value, which a value creator's is
\* validated before.
RECURSIVE FromValue(_, _, _)
FromValue(typ, val, ord) ==
    IF val.native = "attrValue" THEN Result(val.value, NoErr)
    ELSE IF val.native \in {"slice", "map", "struct"}
    THEN LET children == NativeChildren(val)
             untyped  == IF val.native = "struct"
                         THEN DOMAIN children \ DOMAIN typ.AttrTypes ELSE {}
             tfVals   == [k \in DOMAIN children \ untyped |->
                             LET c == FromValue(ChildType(typ, k), children[k], ord)
                             IN  IF c.err # NoErr THEN Result(GoNil, c.err)
                                 ELSE EncodeChild(TerraformType(ChildType(typ, k)),
                                                  c.val, ord, FALSE)]
             all      == [k \in DOMAIN children |->
                             IF k \in untyped THEN Result(GoNil, NoTypeForField(k))
                             ELSE tfVals[k]]
             err      == FirstChildError(val, all, ord)
         IN  IF err # NoErr THEN Result(NilValue, err)
             ELSE ValueFromTerraform(typ, ContainerWire(typ, val, tfVals), ord)
    ELSE IF val.native = "valueCreator" /\ ~ValidateValue(TerraformType(typ), val.raw)
    THEN Result(NilValue, ValidateError(TerraformType(typ), val.raw, FALSE))
    ELSE ValueFromTerraform(typ, ScalarWire(typ, val), ord)

\* reflect.FromStruct(ctx, typ, val, path)
FromStruct(typ, val, ord) == FromValue(typ, val, ord)

(***************************************************************************)
(* The decodes into native values and the conversions back: a wire object  *)
(* known at every level is built into the struct of its type, the struct   *)
(* is converted with FromStruct and the Object is encoded; structs whose   *)
(* fields carry their own conversion are converted; values and targets of  *)
(* the wrong kind are handed to reflect.Struct.                            *)
(***************************************************************************)
\* Object types of two attributes, "a" and "b".
RoundTripTypes ==
    {ObjAB, ObjNested,
     ObjectType("a" :> MapType(StringType) @@ "b" :> ObjAB),
     ObjectType("a" :> ListType(NumberType) @@ "b" :> MapType(NumberType))}

\* Every tftypes.Value of a wire type that is known at every level.
RECURSIVE KnownWiresOf(_)
KnownWiresOf(typ) ==
    CASE typ.tf = "String" -> {NewValue(typ, GoString(s)) : s \in Strs}
      [] typ.tf = "Number" -> {NewValue(typ, GoFloat(n)) : n \in Nums}
      [] typ.tf = "List" ->
            {NewValue(typ, GoSlice(items)) : items \in SeqUpTo(KnownWiresOf(typ.elem), MaxLen)}
      [] typ.tf = "Map" ->
            {NewValue(typ, GoMap(entries)) : entries \in PartialMaps(KnownWiresOf(typ.elem))}
      [] typ.tf = "Object" ->
            LET a == KnownWiresOf(typ.attrs["a"])
                b == KnownWiresOf(typ.attrs["b"])
            IN  {NewValue(typ, GoMap("a" :> x @@ "b" :> y)) : x \in a, y \in b}

RoundTripInputs ==
    UNION {{[typ |-> typ, val |-> val] : val \in KnownWiresOf(TerraformType(typ))} :
              typ \in RoundTripTypes}

\* the native numbers: 1 and 2^53+1 in the integer kinds, 1 as a float64,
\* and the Floats of the wire
NativeNumbers ==
    {NativeNumber(kind, Float(FALSE, bits, 64)) :
        kind \in {"int", "uint", "bigInt"}, bits \in {{0}, {0, 53}}} \cup
    {NativeNumber("float64", One53)} \cup
    {NativeNumber("bigFloat", n) : n \in Nums}

\* the fields that carry their own conversion
HookFields ==
    {[native |-> "pointer", nil |-> TRUE, str |-> ""],
     [native |-> "pointer", nil |-> FALSE, str |-> "x"],
     [native |-> "unknownable", Unknown |-> TRUE, str |-> ""],
     [native |-> "unknownable", Unknown |-> FALSE, str |-> "x"],
     [native |-> "nullable", Null |-> TRUE, str |-> ""],
     [native |-> "nullable", Null |-> FALSE, str |-> "x"],
     [native |-> "attrValue", value |-> String(TRUE, FALSE, "")],
     [native |-> "attrValue", value |-> String(FALSE, FALSE, "y")],
     [native |-> "valueCreator", raw |-> GoNil],
     [native |-> "valueCreator", raw |-> UnknownValue],
     [native |-> "valueCreator", raw |-> GoString("z")]}

FromFields == {NativeString("x")} \cup NativeNumbers \cup HookFields

FromStructs == {NativeStruct(fields) : fields \in PartialMaps(FromFields)}

FromTypes == {ObjectType(attrs) : attrs \in PartialMaps({StringType, NumberType})}

\* targets and values whose kind reflect.Struct tests
KindTargets == {NativeString(""), StructTarget(<< >>), StructTarget("a" :> "string")}

KindWires ==
    {NewValue(TFString, GoString("x")), NewValue(TFNumber, GoFloat(One53)),
     NewValue(TFList(TFString), GoSlice(<< >>)),
     NewValue(TFObject(<< >>), GoMap(<< >>)),
     NewValue(TFObject("a" :> TFString), GoMap("a" :> NewValue(TFString, GoString("x"))))}

NativeInit ==
    /\ \/ \E in \in RoundTripInputs, num \in NumKinds, ord \in Orders :
             call = [op |-> "reflect.BuildValue", typ |-> in.typ, val |-> in.val,
                     num |-> num, ord |-> ord]
       \/ \E typ \in FromTypes, val \in FromStructs, ord \in Orders :
             call = [op |-> "reflect.FromStruct", typ |-> typ, val |-> val, ord |-> ord]
       \/ \E object \in KindWires, target \in KindTargets, opts \in AllOptions,
             ord \in Orders :
             call = [op |-> "reflect.Struct", typ |-> ObjA, object |-> object,
                     target |-> target, opts |-> opts, ord |-> ord]
    /\ ret = NoRet
    /\ src = NoSrc

\* reflect.BuildValue(ctx, typ, val, target, opts, path), target the struct
\* of typ
BuildKnown ==
    /\ call.op = "reflect.BuildValue"
    /\ ret = NoRet
    /\ ret' = BuildNative(call.typ, call.val, call.num)
    /\ UNCHANGED <<call, src>>

\* The struct that was built is handed to FromStruct with the same type.
Reencode ==
    /\ call.op = "reflect.BuildValue"
    /\ ret # NoRet
    /\ ret.err = NoErr
    /\ call' = [op |-> "reflect.FromStruct", typ |-> call.typ, val |-> ret.val,
                ord |-> call.ord]
    /\ ret' = NoRet
    /\ src' = [typ |-> call.typ, val |-> call.val, num |-> call.num]

\* reflect.FromStruct(ctx, typ, val, path)
EncodeStruct ==
    /\ call.op = "reflect.FromStruct"
    /\ ret = NoRet
    /\ ret' = FromStruct(call.typ, call.val, call.ord)
    /\ UNCHANGED <<call, src>>

\* The Object FromStruct returned is encoded.
EncodeObject ==
    /\ call.op = "reflect.FromStruct"
    /\ ret # NoRet
    /\ ret.err = NoErr
    /\ call' = EncodeCall(ret.val, call.ord)
    /\ ret' = NoRet
    /\ UNCHANGED src

NativeNext ==
    \/ BuildKnown
    \/ Reencode
    \/ EncodeStruct
    \/ EncodeObject
    \/ Encode
    \/ DecodeStruct

NativeSpec == NativeInit /\ [][NativeNext]_vars

(***************************************************************************)
(* Vocabulary of the round trip through native values.                     *)
(***************************************************************************)
\* A wire value with every Float reduced to the number it denotes:
\* tftypes.Value.Equal compares numbers with Cmp.
RECURSIVE NormWire(_)
NormWire(w) ==
    IF w.value \in {UnknownValue, GoNil} THEN w
    ELSE CASE w.value.go = "float" ->
                 NewValue(w.typ, GoFloat(Float(w.value.num.neg /\ w.value.num.bits # {},
                                               w.value.num.bits, 0)))
           [] w.value.go = "slice" ->
                 NewValue(w.typ, GoSlice([i \in 1..Len(w.value.items) |->
                                             NormWire(w.value.items[i])]))
           [] w.value.go = "map" ->
                 NewValue(w.typ, GoMap([k \in DOMAIN w.value.entries |->
                                           NormWire(w.value.entries[k])]))
           [] OTHER -> w

\* every number of the wire value fits the precision of big.NewFloat
RECURSIVE WireFitsNewFloat(_)
WireFitsNewFloat(w) ==
    IF w.value \in {UnknownValue, GoNil} THEN TRUE
    ELSE CASE w.value.go = "float" ->
                 RoundBits(w.value.num.bits, NewFloatPrec) = w.value.num.bits
           [] w.value.go = "slice" ->
                 \A i \in 1..Len(w.value.items) : WireFitsNewFloat(w.value.items[i])
           [] w.value.go = "map" ->
                 \A k \in DOMAIN w.value.entries : WireFitsNewFloat(w.value.entries[k])
           [] OTHER -> TRUE

\* the call converts, or encodes the conversion of, a struct that was built
\* from the wire object src.val
RoundTrips == src # NoSrc /\ ret # NoRet /\ call.op \in {"reflect.FromStruct", "ToTerraformValue"}

RoundTripped ==
    /\ ret.err = NoErr
    /\ call.op = "ToTerraformValue" =>
          /\ ValidateValue(TerraformType(src.typ), ret.val)
          /\ NormWire(NewValue(TerraformType(src.typ), ret.val)) = NormWire(src.val)

(***************************************************************************)
(* C21.  A wire object known at every level, of an object type of strings, *)
(* numbers, lists, maps and nested objects, that was decoded into the      *)
(* struct of its type is converted back by FromStruct with the same type   *)
(* without error, and the Object encodes to a wire value identical to the  *)
(* input: the same attributes, list order, map keys and scalars.           *)
(***************************************************************************)
C21_NativeRoundTrip == RoundTrips => RoundTripped

\* The round trip holds of every wire object whose numbers fit 53 bits.
NativeRoundTripWithinPrecision == RoundTrips /\ WireFitsNewFloat(src.val) => RoundTripped

\* It fails only by the value of a number.
NativeRoundTripLosesOnlyPrecision ==
    RoundTrips =>
        /\ ret.err = NoErr
        /\ call.op = "ToTerraformValue" => ValidateValue(TerraformType(src.typ), ret.val)

(***************************************************************************)
(* Vocabulary of FromStruct: the fields of the struct handed in and the    *)
(* attributes of the Object returned.                                      *)
(***************************************************************************)
Converted == Returned("reflect.FromStruct") /\ ret.err = NoErr

\* the attribute type of tag f can take the field f
Suits(typ, field) ==
    CASE field.native \in NumKinds -> typ = NumberType
      [] field.native = "valueCreator" ->
            field.raw \in {GoNil, UnknownValue} \/ typ = StringType
      [] field.native = "attrValue" -> IsKnownValue(field.value) => typ = StringType
      [] field.native \in {"string", "pointer", "unknownable", "nullable"} ->
            \/ typ = StringType
            \/ field.native = "pointer" /\ field.nil
            \/ field.native = "unknownable" /\ field.Unknown
            \/ field.native = "nullable" /\ field.Null
      [] OTHER -> FALSE

\* The Object has the attribute types of the type and one attribute per
\* tagged field; a struct whose tags are the names of the type and whose
\* fields suit the attribute types is converted.
FromStructShape ==
    /\ Converted =>
          /\ ret.val.kind = "Object"
          /\ IsKnownValue(ret.val)
          /\ ret.val.AttrTypes = call.typ.AttrTypes
          /\ DOMAIN ret.val.Attrs.entries = DOMAIN call.val.fields
    /\ /\ Returned("reflect.FromStruct")
       /\ DOMAIN call.val.fields = DOMAIN call.typ.AttrTypes
       /\ \A f \in DOMAIN call.val.fields : Suits(call.typ.AttrTypes[f], call.val.fields[f])
       => ret.err = NoErr

\* A field that carries its own conversion is converted by it.
FromStructHooks ==
    Converted =>
        \A f \in DOMAIN call.val.fields :
           LET field == call.val.fields[f]
               got   == ret.val.Attrs.entries[f]
           IN  /\ field.native = "attrValue" =>
                     /\ got.Unknown = field.value.Unknown
                     /\ got.Null = field.value.Null
                     /\ call.typ.AttrTypes[f] = StringType => got = field.value
               /\ field.native = "unknownable" =>
                     got.Unknown = field.Unknown /\ ~got.Null
               /\ field.native = "nullable" =>
                     got.Null = field.Null /\ ~got.Unknown
               /\ field.native = "pointer" =>
                     got.Null = field.nil /\ ~got.Unknown
               /\ field.native = "valueCreator" =>
                     /\ got.Unknown = (field.raw = UnknownValue)
                     /\ got.Null = (field.raw = GoNil)
               /\ field.native \in {"unknownable", "nullable", "pointer"} /\ IsKnownValue(got) =>
                     got = String(FALSE, FALSE, field.str)

(***************************************************************************)
(* C22.  FromStruct returns an Object whose AttrTypes are those of the     *)
(* object type and whose Attrs has one entry per tagged field.  Every      *)
(* numeric field (signed, unsigned, float, big integer, big float) becomes *)
(* a known Number of the same numeric value.  A field that is an           *)
(* attr.Value, or has the unknown, null or value-creator method, is        *)
(* converted through it, giving Unknown and Null values.                   *)
(***************************************************************************)
C22_FromStructNumbersAndHooks ==
    /\ FromStructShape
    /\ FromStructHooks
    /\ Converted =>
          \A f \in DOMAIN call.val.fields :
             call.val.fields[f].native \in NumKinds =>
                /\ ret.val.Attrs.entries[f].kind = "Number"
                /\ IsKnownValue(ret.val.Attrs.entries[f])
                /\ SameNumber(ret.val.Attrs.entries[f].Value, call.val.fields[f].num)

\* All of it holds but the value of a number that needs more than 53 bits,
\* which becomes the number rounded to 53 bits.
FromStructWithinPrecision ==
    /\ FromStructShape
    /\ FromStructHooks
    /\ Converted =>
          \A f \in DOMAIN call.val.fields :
             call.val.fields[f].native \in NumKinds =>
                /\ ret.val.Attrs.entries[f].kind = "Number"
                /\ IsKnownValue(ret.val.Attrs.entries[f])
                /\ ret.val.Attrs.entries[f].Value =
                      FloatSet(NewFloatPrec, call.val.fields[f].num)

(***************************************************************************)
(* C23.  reflect.Struct fails, and returns nothing it filled, when the     *)
(* value is not an object or the target is not a struct: a target that is  *)
(* no struct is refused as such when handed an object, and a value that is *)
(* no object is refused as such by every struct, the struct without fields *)
(* included.                                                               *)
(***************************************************************************)
C23_StructRejectsKinds ==
    Returned("reflect.Struct") =>
        LET notStruct == call.target.native # "struct"
            notObject == call.object.typ.tf # "Object"
        IN  /\ notStruct \/ notObject =>
                  /\ ret.val = NoResult
                  /\ ret.err.err \in {"NotAStruct", "NotAnObject"}
            /\ notStruct /\ ~notObject =>
                  ret.err = [err |-> "NotAStruct", got |-> call.target.native]
            /\ notObject /\ ~notStruct =>
                  ret.err = [err |-> "NotAnObject", got |-> call.object.typ]
            /\ ret.err.err \in {"NotAStruct", "NotAnObject"} => notStruct \/ notObject

C23_Witness ==
    /\ Returned("reflect.Struct")
    /\ call.target = StructTarget(<< >>)
    /\ call.object = NewValue(TFString, GoString("x"))
    /\ ret = Result(NoResult, [err |-> "NotAnObject", got |-> TFString])

\* v is a Value of type t at every level.
RECURSIVE WellTyped(_, _)
WellTyped(v, t) ==
    CASE t.kind = "List" ->
            /\ v.kind = "List"
            /\ v.ElemType = t.ElemType
            /\ IsKnownValue(v) =>
                  \A i \in 1..Len(v.Elems.items) : WellTyped(v.Elems.items[i], t.ElemType)
      [] t.kind = "Map" ->
            /\ v.kind = "Map"
            /\ v.ElemType = t.ElemType
            /\ IsKnownValue(v) =>
                  \A k \in DOMAIN v.Elems.entries : WellTyped(v.Elems.entries[k], t.ElemType)
      [] t.kind = "Object" ->
            /\ v.kind = "Object"
            /\ v.AttrTypes = t.AttrTypes
            /\ IsKnownValue(v) =>
                  /\ DOMAIN v.Attrs.entries = DOMAIN v.AttrTypes
                  /\ \A k \in DOMAIN v.Attrs.entries :
                        WellTyped(v.Attrs.entries[k], t.AttrTypes[k])
      [] t.kind = "Number" -> v.kind = "Number"
      [] OTHER -> v.kind = "String"

(***************************************************************************)
(* C24.  Every Value a container type decodes is well typed at every       *)
(* level: it declares the element or attribute types of the type that      *)
(* decoded it, each child is a Value of the declared type of its place,    *)
(* and a known Object has exactly the attributes its AttrTypes name.       *)
(***************************************************************************)
C24_DecodedWellTyped ==
    Returned("ValueFromTerraform") /\ ret.err = NoErr /\ IsContainerType(call.t) =>
        WellTyped(ret.val, call.t)

C24_Witness ==
    /\ Returned("ValueFromTerraform")
    /\ call.t = ListType(ObjA)
    /\ ret.err = NoErr
    /\ IsKnownValue(ret.val)
    /\ Len(ret.val.Elems.items) = 2
    /\ IsKnownValue(ret.val.Elems.items[1])
    /\ ret.val.Elems.items[1].AttrTypes = ObjA.AttrTypes
    /\ DOMAIN ret.val.Elems.items[1].Attrs.entries = {"a"}

(***************************************************************************)
(* Types with another element or attribute type.  The receiver of every    *)
(* method of the types and values is passed by value; the methods assign   *)
(* to no field of it and to nothing an argument refers to.                 *)
(***************************************************************************)
\* Faulty variant: the receiver is returned.
ListType_WithElementType_Receiver(l, typ) == l

ListType_WithElementType(l, typ) == ListType(typ)

MapType_WithElementType(m, typ) == MapType(typ)

ObjectType_WithAttributeTypes(o, typs) == ObjectType(typs)

WithInit ==
    /\ \/ \E t \in {x \in EqualTypes : x.kind \in {"List", "Map"}},
             typ \in {StringType, NumberType, ObjA, ListType(StringType), NilType} :
             call = [op |-> "WithElementType", t |-> t, typ |-> typ]
       \/ \E t \in {x \in EqualTypes : x.kind = "Object"},
             typs \in PartialMaps({StringType, NumberType}) :
             call = [op |-> "WithAttributeTypes", t |-> t, typs |-> typs]
    /\ ret = NoRet
    /\ src = NoSrc

\* t.WithElementType(typ)
WithElementType ==
    /\ call.op = "WithElementType"
    /\ ret = NoRet
    /\ ret' = IF call.t.kind = "List" THEN ListType_WithElementType(call.t, call.typ)
              ELSE MapType_WithElementType(call.t, call.typ)
    /\ UNCHANGED <<call, src>>

\* t.WithAttributeTypes(typs)
WithAttributeTypes ==
    /\ call.op = "WithAttributeTypes"
    /\ ret = NoRet
    /\ ret' = ObjectType_WithAttributeTypes(call.t, call.typs)
    /\ UNCHANGED <<call, src>>

\* Every operation of the types, the values and the schema.
FrameInit == Init \/ SchemaInit \/ WithInit

FrameNext ==
    \/ Next
    \/ SchemaNext
    \/ WithElementType
    \/ WithAttributeTypes

FrameSpec == FrameInit /\ [][FrameNext]_vars

\* the step is the return of the call in progress
Returns == ret = NoRet /\ ret' # NoRet

Schema_AttributeTypeAtPath(s, path) ==
    LET w == WalkAttributePath(s, path)
    IN  IF w.err # NoErr THEN Result(NilType, StillRemains(w.remaining, w.err))
        ELSE IF IsAttrType(w.val) THEN Result(w.val, NoErr)
        ELSE IF w.val.kind = "nestedAttributes"
        THEN Result(nestedAttributes_AttributeType(w.val), NoErr)
        ELSE IF w.val.kind # "Attribute" THEN Result(NilType, UnexpectedType(w.val))
        ELSE IF w.val.Type # NilType THEN Result(w.val.Type, NoErr)
        ELSE IF w.val.Attributes = NilType THEN Result(NilType, Panic)
        ELSE Result(NestedAttributes_AttributeType(w.val.Attributes), NoErr)

\* s.TerraformType(ctx).  TerraformType is called on the Type of every
\* attribute that has one and on the lowered type of every attribute that
\* has Attributes; on a nil type, at any depth, the call dereferences nil.
Schema_TerraformType(s) ==
    LET typed   == {name \in DOMAIN s.Attributes : s.Attributes[name].Type # NilType}
        grouped == {name \in DOMAIN s.Attributes : s.Attributes[name].Attributes # NilType}
        lowered == [name \in grouped |-> NestedAttributes_AttributeType(s.Attributes[name].Attributes)]
    IN  IF \/ \E name \in typed : ~HasElemTypes(s.Attributes[name].Type)
           \/ \E name \in grouped : ~HasElemTypes(lowered[name])
        THEN Result(GoNil, Panic)
        ELSE Result(TFObject([name \in typed \cup grouped |->
                                IF name \in grouped THEN TerraformType(lowered[name])
                                ELSE TerraformType(s.Attributes[name].Type)]),
                    NoErr)

\* The nodes a step is applied to: schemas, groups of every mode and the
\* attribute sets of the groups.
StepNodes ==
    PathSchemas \cup {Schema(<< >>)} \cup Groups \cup {nestedAttributes(g.attrs) : g \in Groups}

NodeInit ==
    /\ \/ \E node \in StepNodes, step \in PathSteps :
             call = [op |-> "Node.ApplyTerraform5AttributePathStep", node |-> node, step |-> step]
       \/ \E s \in PathSchemas, path \in Paths :
             call = [op |-> "Schema.AttributeTypeAtPath", s |-> s, path |-> path]
       \/ \E s \in Schemas : call = [op |-> "Schema.TerraformType", s |-> s]
    /\ ret = NoRet
    /\ src = NoSrc

\* node.ApplyTerraform5AttributePathStep(step)
StepNode ==
    /\ call.op = "Node.ApplyTerraform5AttributePathStep"
    /\ ret = NoRet
    /\ ret' = ApplyTerraform5AttributePathStep(call.node, call.step)
    /\ UNCHANGED <<call, src>>

\* The walk goes on: the next step of the path is applied to the attribute
\* set that the step on a group returned.
FollowStep ==
    /\ call.op = "Node.ApplyTerraform5AttributePathStep"
    /\ src = NoSrc
    /\ ret # NoRet
    /\ ret.err = NoErr
    /\ ret.val.kind = "nestedAttributes"
    /\ \E step \in PathSteps :
          call' = [op |-> "Node.ApplyTerraform5AttributePathStep", node |-> ret.val, step |-> step]
    /\ ret' = NoRet
    /\ src' = call

\* s.AttributeTypeAtPath(path)
ResolveType ==
    /\ call.op = "Schema.AttributeTypeAtPath"
    /\ ret = NoRet
    /\ ret' = Schema_AttributeTypeAtPath(call.s, call.path)
    /\ UNCHANGED <<call, src>>

\* s.TerraformType(ctx)
LowerToWire ==
    /\ call.op = "Schema.TerraformType"
    /\ ret = NoRet
    /\ ret' = Schema_TerraformType(call.s)
    /\ UNCHANGED <<call, src>>

NodeNext ==
    \/ StepNode
    \/ FollowStep
    \/ ResolveType
    \/ LowerToWire

NodeSpec == NodeInit /\ [][NodeNext]_vars

\* The one kind of step a node accepts.
Accepts(node) ==
    IF node.kind \in {"Schema", "nestedAttributes"} THEN "AttributeName"
    ELSE CASE node.mode = NestingModeList -> "ElementKeyInt"
           [] node.mode = NestingModeMap -> "ElementKeyString"
           [] node.mode = NestingModeSet -> "ElementKeyValue"
           [] OTHER -> "AttributeName"

\* The attributes of a node, by name.
AttributesOf(node) == IF node.kind = "Schema" THEN node.Attributes ELSE node.attrs

(***************************************************************************)
(* C26.  Schema-tree step protocol: a Schema, an attribute set and a       *)
(* Single group accept only an AttributeName step and return the named     *)
(* Attribute, or a not-found error and no node; a List group accepts only  *)
(* an ElementKeyInt step, a Map group only an ElementKeyString step and a  *)
(* Set group only an ElementKeyValue step, and each returns the attribute  *)
(* set of the group; every other step kind returns an error and no node.   *)
(* The step that follows the step on a List, Map or Set group succeeds     *)
(* exactly when it is the name of an attribute of the group.               *)
(***************************************************************************)
C26_NodeStepProtocol ==
    Returned("Node.ApplyTerraform5AttributePathStep") =>
        LET node  == call.node
            step  == call.step
            attrs == AttributesOf(node)
        IN  /\ IF step.step # Accepts(node)
               THEN ret.val = NilType /\ ret.err # NoErr /\ ret.err.err = "CannotApply"
               ELSE IF step.step # "AttributeName"
               THEN ret = Result(nestedAttributes(attrs), NoErr)
               ELSE IF step.name \in DOMAIN attrs
               THEN ret = Result(attrs[step.name], NoErr)
               ELSE ret.val = NilType /\ ret.err # NoErr /\ ret.err.err = "NotFound"
            /\ src # NoSrc =>
                  /\ src.node.kind = "NestedAttributes"
                  /\ src.node.mode \in {NestingModeList, NestingModeMap, NestingModeSet}
                  /\ node = nestedAttributes(src.node.attrs)
                  /\ ret.err = NoErr <=>
                        step.step = "AttributeName" /\ step.name \in DOMAIN src.node.attrs

\* A Set group is stepped into by an element value, and the name that
\* follows yields the Attribute of the group.
C26_Witness ==
    /\ Returned("Node.ApplyTerraform5AttributePathStep")
    /\ src # NoSrc
    /\ src.node = NestedAttributes(NestingModeSet, "a" :> Attribute(StringType, NilType))
    /\ src.step = ElementKeyValue
    /\ call.step = AttributeName("a")
    /\ ret = Result(Attribute(StringType, NilType), NoErr)

\* The type that the steps of path, applied one by one to the lowered type
\* of the schema, lead to.
LoweredAt(s, path) == WalkAttributePath(Schema_AttributeType(s), path)

\* Schema.AttributeTypeAtPath returned a type that is set, and the same
\* steps on the lowered type lead to a type Equal to it.
AgreesWithLowering ==
    LET l == LoweredAt(call.s, call.path)
    IN  /\ ret.val # NilType
        /\ l.err = NoErr
        /\ l.val # NilType
        /\ TypeEqual(ret.val, l.val)

(***************************************************************************)
(* C27.  Path resolution agrees with the lowered type, as stated: for      *)
(* every schema built from leaves and groups and every path for which      *)
(* Schema.AttributeTypeAtPath succeeds, the returned Type is not nil and   *)
(* is Equal to the Type that the same steps, applied one by one to         *)
(* Schema.AttributeType(), lead to.                                        *)
(***************************************************************************)
C27_TypeAtPathAgreesWithLowering ==
    /\ Returned("Schema.AttributeTypeAtPath")
    /\ BuiltFrom(call.s.Attributes, NestingModes)
    /\ ret.err = NoErr
    => AgreesWithLowering

\* What holds on the code: the agreement for the schemas whose groups are
\* Single or List groups, at every depth.
TypeAtPathAgreesWithoutSetOrMap ==
    /\ Returned("Schema.AttributeTypeAtPath")
    /\ BuiltFrom(call.s.Attributes, {NestingModeSingle, NestingModeList})
    /\ ret.err = NoErr
    => AgreesWithLowering

\* The path that ends on a Set or a Map group succeeds with a nil Type.
TypeAtPathNilOnSetOrMap ==
    /\ Returned("Schema.AttributeTypeAtPath")
    /\ call.path = <<AttributeName("a")>>
    /\ IsGroup(call.s.Attributes["a"], {NestingModeSet, NestingModeMap})
    => ret = Result(NilType, NoErr)

\* A path into an element of a List group, resolved to the object of the
\* group.
TypeAtPathElementOfListGroup ==
    /\ Returned("Schema.AttributeTypeAtPath")
    /\ call.s = Schema("a" :> Attribute(NilType,
                           NestedAttributes(NestingModeList, "a" :> Attribute(StringType, NilType))))
    /\ call.path = <<AttributeName("a"), ElementKeyInt(0)>>
    /\ ret = Result(ObjA, NoErr)

\* Schema.TerraformType returned the wire type of the lowered schema, with
\* one attribute per attribute of the schema.
SameWireAsLowering ==
    /\ ret.err = NoErr
    /\ HasElemTypes(Schema_AttributeType(call.s))
    /\ ret.val = TerraformType(Schema_AttributeType(call.s))
    /\ DOMAIN ret.val.attrs = DOMAIN call.s.Attributes

(***************************************************************************)
(* C30.  Schema.TerraformType is total and consistent with lowering, as    *)
(* stated: for every schema built from leaf attributes and Single, List,   *)
(* Set or Map groups, Schema.TerraformType completes without a runtime     *)
(* fault and returns the wire object type that                             *)
(* Schema.AttributeType().TerraformType returns, with one attribute per    *)
(* attribute name of the schema.                                           *)
(***************************************************************************)
C30_SchemaTerraformTypeTotal ==
    /\ Returned("Schema.TerraformType")
    /\ BuiltFrom(call.s.Attributes, NestingModes)
    => SameWireAsLowering

\* What holds on the code: totality and consistency for the schemas whose
\* groups are Single or List groups, at every depth.
SchemaTerraformTypeWithoutSetOrMap ==
    /\ Returned("Schema.TerraformType")
    /\ BuiltFrom(call.s.Attributes, {NestingModeSingle, NestingModeList})
    => SameWireAsLowering

\* A schema that holds a Set or a Map group, at any depth, makes
\* Schema.TerraformType fault, and no other schema built from leaves and
\* groups does.
SchemaTerraformTypeFaultsOnSetOrMap ==
    /\ Returned("Schema.TerraformType")
    /\ BuiltFrom(call.s.Attributes, NestingModes)
    => (ret.err = Panic <=>
           Holds(call.s.Attributes, NestingModeSet) \/ Holds(call.s.Attributes, NestingModeMap))

\* A schema with a leaf and a List group, lowered to its wire type.
SchemaTerraformTypeOfListGroup ==
    /\ Returned("Schema.TerraformType")
    /\ call.s = Schema("a" :> Attribute(StringType, NilType)
                       @@ "b" :> Attribute(NilType,
                              NestedAttributes(NestingModeList, "a" :> Attribute(StringType, NilType))))
    /\ ret = Result(TFObject("a" :> TFString @@ "b" :> TFList(TFObject("a" :> TFString))), NoErr)

(***************************************************************************)
(* ElementsAs: the elements of a List or of a Map are handed to            *)
(* reflect.Into as a wire container and decoded into a slice or a map.     *)
(***************************************************************************)
SliceTarget(elem) == [native |-> "slice", elem |-> elem]

MapTarget(elem) == [native |-> "map", elem |-> elem]

\* "can't unmarshal ... into ..."
CantUnmarshal(typ, target) == [err |-> "CantUnmarshal", got |-> typ.tf, target |-> target.native]

\* reflect.Into with a pointer to a slice or to a map: neither holds the
\* sentinel of an unknown or null container, so the flag of opts decides
\* between the empty value and the unhandled error; the elements of a
\* known container are built one by one.
Into_Elements(typ, val, target, opts, ord) ==
    IF ~IsKnown(val)
    THEN IF opts.UnhandledUnknownAsEmpty THEN Result(Zero(target.native), NoErr)
         ELSE Result(NoResult, UnhandledUnknown(""))
    ELSE IF IsNull(val)
    THEN IF opts.UnhandledNullAsEmpty THEN Result(Zero(target.native), NoErr)
         ELSE Result(NoResult, UnhandledNull(""))
    ELSE IF (target.native = "slice") # (val.typ.tf = "List")
    THEN Result(NoResult, CantUnmarshal(val.typ, target))
    ELSE LET children == IF target.native = "slice" THEN val.value.items ELSE val.value.entries
             built    == [k \in DOMAIN children |->
                             BuildValue(typ.ElemType, children[k], target.elem, opts, "elem")]
             failed   == {k \in DOMAIN children : built[k].err # NoErr}
             vals     == [k \in DOMAIN children |-> built[k].val]
         IN  IF failed # {}
             THEN IF target.native = "slice" THEN Result(NoResult, built[MinOf(failed)].err)
                  ELSE Result(NoResult, built[FirstKey(ord, failed)].err)
             ELSE IF target.native = "slice" THEN Result(NativeSlice(vals), NoErr)
             ELSE Result(NativeMap(vals), NoErr)

\* The wire list List.ElementsAs hands to reflect.Into: the list's own
\* encoding (l.ToTerraformValue, which for a List is List_ToTerraformValue),
\* wrapped as a list of its element type.
List_ElementsAs_Wire(l, ord) ==
    LET r == ToTerraformValue(l, ord)
    IN  IF r.err # NoErr THEN Result(GoNil, r.err)
        ELSE Result(NewValue(TFList(TerraformType(l.ElemType)), r.val), NoErr)

\* fmt.Errorf("error ... for element %q: %w", key, err)
ElementError(key, err) == [err |-> "Element", key |-> key, wrapped |-> err]

\* The wire map Map.ElementsAs hands to reflect.Into: the range over
\* m.Elems encodes and validates every element, and the map made of them
\* is wrapped as a map of the element type; Unknown and Null are not read.
Map_ElementsAs_Wire(m, ord) ==
    LET elems == m.Elems.entries
        vals  == [k \in DOMAIN elems |->
                     EncodeChild(TerraformType(m.ElemType), elems[k], ord, FALSE)]
        bad   == {k \in DOMAIN elems : vals[k].err # NoErr}
    IN  IF bad # {}
        THEN Result(GoNil, ElementError(FirstKey(ord, bad), vals[FirstKey(ord, bad)].err))
        ELSE Result(NewValue(TFMap(TerraformType(m.ElemType)),
                             GoMap([k \in DOMAIN elems |-> vals[k].val])), NoErr)

List_ElementsAs(l, target, allowUnhandled, ord) ==
    LET values == List_ElementsAs_Wire(l, ord)
    IN  IF values.err # NoErr THEN Result(NoResult, values.err)
        ELSE Into_Elements(ListType(l.ElemType), values.val, target,
                           Options(allowUnhandled, allowUnhandled), ord)

Map_ElementsAs(m, target, allowUnhandled, ord) ==
    LET values == Map_ElementsAs_Wire(m, ord)
    IN  IF values.err # NoErr THEN Result(NoResult, values.err)
        ELSE Into_Elements(MapType(m.ElemType), values.val, target,
                           Options(allowUnhandled, allowUnhandled), ord)

\* The elements of the containers: strings in each of the three states,
\* and a list where a string is declared.
ElementValues ==
    {String(FALSE, FALSE, "x"), String(TRUE, FALSE, ""), String(FALSE, TRUE, ""),
     List(FALSE, FALSE, Slice(<< >>), StringType)}

\* Unknown, Null and known, for a container: at most one of the two flags
\* is set.
TriStates == {<<TRUE, FALSE>>, <<FALSE, TRUE>>, <<FALSE, FALSE>>}

\* Lists and maps of strings in each state, with Elems nil, empty or
\* holding elements whatever the state.
ElementContainers ==
    {List(f[1], f[2], elems, StringType) :
        f \in TriStates,
        elems \in {NilSlice} \cup {Slice(items) : items \in SeqUpTo(ElementValues, MaxLen)}} \cup
    {Map(f[1], f[2], elems, StringType) :
        f \in TriStates,
        elems \in {NilMap} \cup {GoMapOf(entries) : entries \in PartialMaps(ElementValues)}}

ElementTargets ==
    {SliceTarget(kind) : kind \in {"string", "pointer"}} \cup
    {MapTarget(kind) : kind \in {"string", "pointer"}}

ElementsInit ==
    /\ \E v \in ElementContainers, target \in ElementTargets, allowUnhandled \in BOOLEAN,
          ord \in Orders :
          call = [op |-> "ElementsAs", v |-> v, target |-> target,
                  allowUnhandled |-> allowUnhandled, ord |-> ord]
    /\ ret = NoRet
    /\ src = NoSrc

\* l.ElementsAs(ctx, &target, allowUnhandled); src keeps the wire list
\* that reflect.Into was called with.
ListElementsAs ==
    /\ call.op = "ElementsAs"
    /\ call.v.kind = "List"
    /\ ret = NoRet
    /\ ret' = List_ElementsAs(call.v, call.target, call.allowUnhandled, call.ord)
    /\ src' = List_ElementsAs_Wire(call.v, call.ord)
    /\ UNCHANGED call

\* m.ElementsAs(ctx, &target, allowUnhandled); src keeps the wire map that
\* reflect.Into was called with.
MapElementsAs ==
    /\ call.op = "ElementsAs"
    /\ call.v.kind = "Map"
    /\ ret = NoRet
    /\ ret' = Map_ElementsAs(call.v, call.target, call.allowUnhandled, call.ord)
    /\ src' = Map_ElementsAs_Wire(call.v, call.ord)
    /\ UNCHANGED call

ElementsNext ==
    \/ ListElementsAs
    \/ MapElementsAs

ElementsSpec == ElementsInit /\ [][ElementsNext]_vars

\* ElementsAs handed the decoder the unknown or the null wire container
\* that stands for the state of the receiver, and the outcome is the one
\* allowUnhandled decides: the empty target, or the unhandled error.
HonoursTriState ==
    /\ src.err = NoErr
    /\ IF call.v.Unknown THEN ~IsKnown(src.val) ELSE IsNull(src.val)
    /\ IF call.allowUnhandled THEN ret = Result(Zero(call.target.native), NoErr)
       ELSE /\ ret.val = NoResult
            /\ ret.err = IF call.v.Unknown THEN UnhandledUnknown("") ELSE UnhandledNull("")

(***************************************************************************)
(* C28.  ElementsAs honours the container's own tri-state, as stated:      *)
(* ElementsAs on an Unknown or Null List or Map hands an unknown or null   *)
(* wire container to the decoder, so that allowUnhandled decides between   *)
(* the empty target and the unhandled error, and never decodes the         *)
(* container as a known one built from what Elems holds; List.ElementsAs   *)
(* and Map.ElementsAs behave the same.                                     *)
(***************************************************************************)
C28_ElementsAsHonoursTriState ==
    /\ Returned("ElementsAs")
    /\ call.v.Unknown \/ call.v.Null
    => HonoursTriState

\* What holds on the code: List.ElementsAs honours the state of the list.
ListElementsAsHonoursTriState ==
    /\ Returned("ElementsAs")
    /\ call.v.kind = "List"
    /\ call.v.Unknown \/ call.v.Null
    => HonoursTriState

\* What Map.ElementsAs does: an Unknown or Null map is handed over as the
\* known map of what Elems holds, when every element of it encodes.
MapElementsAsReadsElems ==
    /\ Returned("ElementsAs")
    /\ call.v.kind = "Map"
    /\ call.v.Unknown \/ call.v.Null
    /\ src.err = NoErr
    => /\ IsKnown(src.val) /\ ~IsNull(src.val)
       /\ DOMAIN src.val.value.entries = DOMAIN call.v.Elems.entries
       /\ ret = Into_Elements(MapType(call.v.ElemType), src.val, call.target,
                              Options(call.allowUnhandled, call.allowUnhandled), call.ord)

\* An Unknown list with an element left in Elems, refused as unknown.
ListElementsAsUnknownRefused ==
    /\ Returned("ElementsAs")
    /\ call.v = List(TRUE, FALSE, Slice(<<String(FALSE, FALSE, "x")>>), StringType)
    /\ call.target = SliceTarget("string")
    /\ ~call.allowUnhandled
    /\ ret = Result(NoResult, UnhandledUnknown(""))

\* An Unknown map with an element left in Elems, decoded as a known map.
MapElementsAsUnknownDecoded ==
    /\ Returned("ElementsAs")
    /\ call.v = Map(TRUE, FALSE, GoMapOf("a" :> String(FALSE, FALSE, "x")), StringType)
    /\ call.target = MapTarget("string")
    /\ ~call.allowUnhandled
    /\ ret = Result(NativeMap("a" :> [native |-> "string", str |-> "x"]), NoErr)

(***************************************************************************)
(* Values that are not known and still carry a payload: a caller builds    *)
(* them as struct literals, compares two of them and encodes both.         *)
(***************************************************************************)
\* Unknown and Null, for a value that is not known.
NotKnownStates == {<<TRUE, FALSE>>, <<FALSE, TRUE>>}

\* Values of each variant, Unknown or Null, with an empty payload and with
\* a payload left in.
PayloadValues ==
    {String(f[1], f[2], value) : f \in NotKnownStates, value \in {"", "x"}} \cup
    {Number(f[1], f[2], value) : f \in NotKnownStates, value \in {NilFloat} \cup Nums} \cup
    {List(f[1], f[2], elems, StringType) :
        f \in NotKnownStates,
        elems \in {NilSlice, Slice(<< >>), Slice(<<String(FALSE, FALSE, "x")>>)}} \cup
    {Map(f[1], f[2], elems, StringType) :
        f \in NotKnownStates,
        elems \in {NilMap, GoMapOf(<< >>), GoMapOf("a" :> String(FALSE, FALSE, "x"))}} \cup
    {Object(f[1], f[2], attrs, ObjA.AttrTypes) :
        f \in NotKnownStates,
        attrs \in {NilMap, GoMapOf(<< >>), GoMapOf("a" :> String(FALSE, FALSE, "x"))}}

PayloadInit ==
    /\ \E v \in PayloadValues, o \in PayloadValues :
          call = [op |-> "Value.Equal", v |-> v, o |-> o]
    /\ ret = NoRet
    /\ src = NoSrc

\* v.ToTerraformValue(ctx) and o.ToTerraformValue(ctx), for the two values
\* that were compared; src keeps the two encodings.
EncodeBoth ==
    /\ call.op = "Value.Equal"
    /\ ret # NoRet
    /\ src = NoSrc
    /\ \E ord \in Orders :
          src' = [mine |-> ToTerraformValue(call.v, ord), theirs |-> ToTerraformValue(call.o, ord)]
    /\ UNCHANGED <<call, ret>>

PayloadNext ==
    \/ CompareValues
    \/ EncodeBoth

PayloadSpec == PayloadInit /\ [][PayloadNext]_vars

\* The two values are of the same variant and declared type, and both
\* Unknown or both Null.
SameNotKnown(v, o) ==
    /\ v.kind = o.kind
    /\ TypeOf(v) = TypeOf(o)
    /\ v.Unknown = o.Unknown
    /\ v.Null = o.Null
    /\ v.Unknown \/ v.Null

\* The value with its flags cleared: the payload seen as a known value.
AsKnown(v) == [v EXCEPT !.Unknown = FALSE, !.Null = FALSE]

(***************************************************************************)
(* C29.  Payload is irrelevant when not Known, as stated: two values of    *)
(* the same variant and declared type that are both Unknown, or both Null, *)
(* are Equal whatever String.Value, Number.Value, Elems or Attrs hold, and *)
(* their encodings are identical.                                          *)
(***************************************************************************)
C29_PayloadIrrelevant ==
    /\ Returned("Value.Equal")
    /\ SameNotKnown(call.v, call.o)
    => /\ ret.eq
       /\ src # NoSrc => src.mine = src.theirs

\* What holds on the code: the encodings of the two values are identical,
\* the unknown or the null sentinel.
EncodingsIgnorePayload ==
    /\ Returned("Value.Equal")
    /\ SameNotKnown(call.v, call.o)
    /\ src # NoSrc
    => /\ src.mine = src.theirs
       /\ src.mine = Result(IF call.v.Unknown THEN UnknownValue ELSE GoNil, NoErr)

\* What Equal does: once the flags agree, the payloads are compared as
\* those of known values.
EqualComparesPayload ==
    /\ Returned("Value.Equal")
    /\ SameNotKnown(call.v, call.o)
    => ret.eq = Equal(AsKnown(call.v), AsKnown(call.o))

\* Two Unknown strings that differ in Value only: not Equal, same encoding.
UnknownStringsDiffer ==
    /\ Returned("Value.Equal")
    /\ call.v = String(TRUE, FALSE, "x")
    /\ call.o = String(TRUE, FALSE, "")
    /\ ~ret.eq
    /\ src = [mine |-> Result(UnknownValue, NoErr), theirs |-> Result(UnknownValue, NoErr)]

====
